---- MODULE Spec2Model ----
(***************************************************************************)
(* Verification model of the CRM client slice of onyx-local:               *)
(*   - the SWR-backed list hooks and the list pages that use them          *)
(*     (useCrmContacts / useCrmOrganizations, CrmContactsPage,             *)
(*     CrmOrganizationsPage);                                              *)
(*   - the admin SettingsForm (updateSettingField, handleSaveCrmSettings); *)
(*   - the create / log modals and their Formik + Yup submit flow;         *)
(*   - the transport helpers of crmService.ts (getJson, postJson,          *)
(*     deleteJson, withQueryParams).                                       *)
(* Each part has its own specification over the shared variables; the      *)
(* variables of the other parts stay at their initial value.               *)
(***************************************************************************)
EXTENDS Integers, Sequences, FiniteSets, TLC

VARIABLES
    \* ---- list page + SWR cache (SpecList) ----
    searchText,       \* CrmContactsPage / CrmOrganizationsPage useState
    pageNum,          \* useState(0)
    createModalOpen,  \* useState(false)
    createInFlight,   \* createCrmContact / createCrmOrganization calls not yet settled
    cache,            \* SWR cache: key -> [data, error]
    FETCH,            \* SWR FETCH[key]: start stamp of the key's current request, 0 = none
    inflight,         \* requests on the network
    nextId,           \* next request start stamp
    retry,            \* keys with a pending onErrorRetry timer
    otherKey,         \* key of a second mounted subscriber of the same hook, or NoKey
    lateResponse,     \* history: a response arrived for a key the page had already left,
                      \* after the page's current key had loaded
    \* ---- SettingsForm: workspace settings (SpecSettings) ----
    settings,         \* useState<Settings | null>: the local settings
    showConfirmModal, \* useState(false)
    chatRetention,    \* useState(""): text of the retention input
    puts,             \* PUT /api/admin/settings calls not yet settled, in call order
    serverSettings,   \* the settings the backend holds
    refreshPending,   \* router.refresh() called, SettingsContext not yet re-delivered
    lastRequests,     \* history: updateRequests of the latest updateSettingField call
    \* ---- SettingsForm: CRM settings (SpecCrm) ----
    crmStageOptionsRaw,        \* useState(""): textarea text, as its lines
    crmCategorySuggestionsRaw, \* useState("")
    crmSaveInProgress,         \* useState(false)
    crmSettings,               \* useCrmSettings().crmSettings: cached data or NoCrm
    serverCrm,                 \* the CRM settings the backend holds
    crmCall,                   \* handleSaveCrmSettings in flight: its position and PATCH body
    crmPreSubmit,              \* history: the two texts when the awaited PATCH was submitted
    crmTouched,                \* history: a text was edited or reloaded since that submit
    crmOutcome,                \* history: how the latest save ended
    \* ---- Formik forms of the CRM modals and edit panels (SpecForm) ----
    formKind,        \* which form this is
    formOpen,        \* the modal's `open` prop / the page's isEditing
    formInstance,    \* the mounted <Formik>: a reopened modal mounts a new one
    formValues,      \* Formik values: the required name/title and the email
    formStatus,      \* Formik status
    formErrors,      \* Formik errors of the last validation
    isSubmitting,    \* Formik isSubmitting
    formCalls,       \* service calls in flight
    issued,          \* number of service calls issued so far
    onSuccessCount,  \* history: number of onSuccess() invocations
    lastCallbacks,   \* history: callbacks run by the latest settled call, in order
    \* ---- crmService transport helpers (SpecTransport) ----
    txCall,          \* the getJson / postJson / deleteJson call being made
    txResponse,      \* the Response fetch resolved with
    txOutcome,       \* how the call's promise settled
    \* ---- withQueryParams (SpecQuery) ----
    qBasePath,       \* argument basePath
    qParams,         \* argument params, as its Object.entries
    qEntries,        \* the entries appended to `search`
    qPath,           \* the returned string
    \* ---- contact detail page: entity hooks (SpecDetail) ----
    dContactId,      \* the contactId given to useCrmContact
    dContact,        \* cached data of the contact key
    dOrgLoaded,      \* organization ids whose key has cached data
    dFETCH,          \* SWR FETCH per entity key
    dInflight,       \* getCrmContact / getCrmOrganization requests on the network
    dNextId,         \* next request start stamp
    dServerOrgId,    \* organization_id of the contact on the backend
    dEverLinked,     \* history: linkedOrganizationId has been non-null since mount
    dCalls,          \* history: number of calls per service function
    \* ---- TagManager (SpecTags) ----
    tOpen,           \* useState(false): the popover
    tAllTags,        \* useState<CrmTag[]>([]): the loaded tag list
    tTagSearch,      \* useState("")
    tIsCreating,     \* useState(false)
    tTags,           \* prop tags: the entity's tags as last delivered, by id
    tServerTags,     \* the tags the backend holds
    tServerAttached, \* the ids of the tags attached to the entity on the backend
    tCreate,         \* position of handleCreateAndAddTag
    tReqs,           \* other requests in flight
    tIssued,         \* number of requests issued so far
    tLastCreate,     \* history: name and allTags of the latest createCrmTag call
    tLastAttach,     \* history: id, origin and tags of the latest attach call
    \* ---- stage options in the contact create / edit forms (SpecStage) ----
    gTenant,         \* contact_stage_options the backend holds
    gSettings,       \* useCrmSettings().crmSettings: loaded options or NoStageSettings
    gContactStatus,  \* status of the contact shown by the detail page
    gForm,           \* the open contact form: kind, Formik values and initialValues
    gSubmitted,      \* history: the latest createCrmContact / patchCrmContact call
    gCount,          \* number of backend changes and submits so far
    \* ---- page number of the contacts list page (SpecPaging) ----
    pStatusFilter,   \* useState("all")
    pUrlOrg,         \* searchParams.get("organization_id") ?? undefined
    pPageNum,        \* useState(0)
    pCache,          \* SWR data of useCrmContacts by key, NotLoaded before a response
    pServer,         \* number of contacts the backend holds for each filter
    pSteps,          \* number of user and backend steps so far
    \* ---- list and search functions of crmService.ts (SpecService) ----
    sFn, \* the service function called
    sArgs, \* its argument: NoArgs or a record of tagged values
    sPath,\* the request path handed to getJson, <<>> before the call
    \* ---- the SWR list hooks useCrmContacts, useCrmOrganizations, useCrmInteractions (SpecHooks) ----
    hHook, \* the list hook a component renders
    hParams, \* the parameters of the latest render, <<>> before the first
    hCache, \* the SWR cache: the entries [key, path] of the fetches made
    hShown,\* the request path whose response the hook returns, <<>> before the first render
    \* ---- CrmToolRenderer (SpecTool) ----
    rPackets, \* the packets of the tool call received so far
    rStopPacketSeen, \* the stopPacketSeen prop
    rRenderType, \* the renderType prop
    rResult,\* what the renderer hands to children in the latest render
    \* ---- the activity timeline of the detail pages (SpecLoadMore) ----
    detailPage, \* the detail page shown: contact or organization
    totalOnServer, \* the number of interactions the backend holds for the entity
    interactionPageSize, \* the page's interactionPageSize state
    interactionsData \* the hook's data for the current key, NotLoaded while fetching

listVars == <<searchText, pageNum, createModalOpen, createInFlight,
              cache, FETCH, inflight, nextId, retry, otherKey, lateResponse>>

settingsVars == <<settings, showConfirmModal, chatRetention, puts, serverSettings,
                  refreshPending, lastRequests>>

crmVars == <<crmStageOptionsRaw, crmCategorySuggestionsRaw, crmSaveInProgress, crmSettings,
             serverCrm, crmCall, crmPreSubmit, crmTouched, crmOutcome>>

formVars == <<formKind, formOpen, formInstance, formValues, formStatus, formErrors,
              isSubmitting, formCalls, issued, onSuccessCount, lastCallbacks>>

transportVars == <<txCall, txResponse, txOutcome>>

queryVars == <<qBasePath, qParams, qEntries, qPath>>

detailVars == <<dContactId, dContact, dOrgLoaded, dFETCH, dInflight, dNextId, dServerOrgId,
                dEverLinked, dCalls>>

tagVars == <<tOpen, tAllTags, tTagSearch, tIsCreating, tTags, tServerTags, tServerAttached,
             tCreate, tReqs, tIssued, tLastCreate, tLastAttach>>

stageVars == <<gTenant, gSettings, gContactStatus, gForm, gSubmitted, gCount>>

pagingVars == <<pStatusFilter, pUrlOrg, pPageNum, pCache, pServer, pSteps>>

serviceVars == <<sFn, sArgs, sPath>>

hookVars == <<hHook, hParams, hCache, hShown>>

toolVars == <<rPackets, rStopPacketSeen, rRenderType, rResult>>

moreVars == <<detailPage, totalOnServer, interactionPageSize, interactionsData>>

vars == <<listVars, settingsVars, crmVars, formVars, transportVars, queryVars, detailVars,
          tagVars, stageVars, pagingVars,
          serviceVars,
          hookVars,
          toolVars,
          moreVars>>

notListVars == <<settingsVars, crmVars, formVars, transportVars, queryVars, detailVars,
    tagVars, stageVars, pagingVars,
    serviceVars,
    hookVars,
    toolVars,
    moreVars>>
notSettingsVars == <<listVars, crmVars, formVars, transportVars, queryVars, detailVars,
    tagVars, stageVars, pagingVars,
    serviceVars,
    hookVars,
    toolVars,
    moreVars>>
notCrmVars == <<listVars, settingsVars, formVars, transportVars, queryVars, detailVars,
    tagVars, stageVars, pagingVars,
    serviceVars,
    hookVars,
    toolVars,
    moreVars>>
notFormVars == <<listVars, settingsVars, crmVars, transportVars, queryVars, detailVars,
    tagVars, stageVars, pagingVars,
    serviceVars,
    hookVars,
    toolVars,
    moreVars>>
notTransportVars == <<listVars, settingsVars, crmVars, formVars, queryVars, detailVars,
    tagVars, stageVars, pagingVars,
    serviceVars,
    hookVars,
    toolVars,
    moreVars>>
notQueryVars == <<listVars, settingsVars, crmVars, formVars, transportVars, detailVars,
    tagVars, stageVars, pagingVars,
    serviceVars,
    hookVars,
    toolVars,
    moreVars>>
notDetailVars == <<listVars, settingsVars, crmVars, formVars, transportVars, queryVars,
    tagVars, stageVars, pagingVars,
    serviceVars,
    hookVars,
    toolVars,
    moreVars>>
notTagVars == <<listVars, settingsVars, crmVars, formVars, transportVars, queryVars,
    detailVars, stageVars, pagingVars,
    serviceVars,
    hookVars,
    toolVars,
    moreVars>>
notStageVars == <<listVars, settingsVars, crmVars, formVars, transportVars, queryVars,
    detailVars, tagVars, pagingVars,
    serviceVars,
    hookVars,
    toolVars,
    moreVars>>
notPagingVars == <<listVars, settingsVars, crmVars, formVars, transportVars, queryVars,
    detailVars, tagVars, stageVars,
    serviceVars,
    hookVars,
    toolVars,
    moreVars>>
notServiceVars == <<listVars, settingsVars, crmVars, formVars, transportVars, queryVars, detailVars, tagVars, stageVars, pagingVars,
    hookVars,
    toolVars,
    moreVars>>
notHookVars == <<listVars, settingsVars, crmVars, formVars, transportVars, queryVars, detailVars, tagVars, stageVars, pagingVars, serviceVars,
    toolVars,
    moreVars>>
notToolVars == <<listVars, settingsVars, crmVars, formVars, transportVars, queryVars, detailVars, tagVars, stageVars, pagingVars, serviceVars, hookVars,
    moreVars>>
notMoreVars == <<listVars, settingsVars, crmVars, formVars, transportVars, queryVars, detailVars, tagVars, stageVars, pagingVars, serviceVars, hookVars, toolVars>>

Undefined == "undefined"
NoKey == <<>>

--------------------------------------------------------------------------
(* Bounds *)
MaxPage == 1
MaxReq == 3
MaxCreate == 1
MaxPut == 2
MaxDigits == 1
MaxLines == 2
MaxSubmit == 2
MaxOpen == 2
MaxItems == 2
MaxDetailReq == 4
MaxTagReq == 3
MaxTags == 2
MaxStageSteps == 2
MaxPagingPage == 1
MaxPagingCreates == 1
MaxTotalItems == 60
MaxCached == 2
MaxPackets == 3
MaxInteractions == 60

(* Program constants *)
PAGE_SIZE == 25

--------------------------------------------------------------------------
(* List hooks: cache keys                                                  *)

Queries == {"", "acme"}
Pages == 0 .. MaxPage

\* `q ?? ""` in the key array of useCrmContacts / useCrmOrganizations
Coalesce(v) == IF v = Undefined THEN "" ELSE v

\* `searchText || undefined` at the hook call of the pages
OrUndefined(s) == IF s = "" THEN Undefined ELSE s

\* the useSWR key array of the list hooks (filters other than q are not set here)
ListKey(q, p, size) == <<Coalesce(q), p, size>>

Keys == {ListKey(q, p, PAGE_SIZE) : q \in Queries, p \in Pages}

\* the key of the page's hook call in the current render
CurKey == ListKey(OrUndefined(searchText), pageNum, PAGE_SIZE)

--------------------------------------------------------------------------
(* SWR (useSWR as called by the list hooks; library defaults unless the    *)
(* hook passes an option): cache entries, FETCH, revalidate, bound mutate  *)

\* cache entry before any response: data undefined, error undefined
NoData == [key |-> NoKey, rid |-> 0]
NoEntry == [data |-> NoData, error |-> FALSE]

\* what the hook returns: `data?.items ?? []`, `data?.total_items ?? 0`, error
HookData(k) == cache[k].data
Loaded(k) == cache[k].data.rid # 0

\* the in-memory SWR state the handlers below transform
SwrState == [cache |-> cache, FETCH |-> FETCH, inflight |-> inflight, nextId |-> nextId]

Resolved(S, k) == S.FETCH[k] # 0 /\ \A r \in S.inflight : r.id # S.FETCH[k]

\* variant: a revalidate that never dedupes
ShouldStartAlways(S, k, dedupe) == TRUE

\* revalidate(): `shouldStartNewRequest = !FETCH[key] || !opts.dedupe`
ShouldStartNewRequest(S, k, dedupe) == S.FETCH[k] = 0 \/ ~dedupe

\* FETCH[key] = [fetcher(), getTimestamp()]: one network request
StartRequest(S, k, by) ==
    [S EXCEPT !.FETCH[k] = S.nextId,
              !.inflight = S.inflight \cup
                  {[id |-> S.nextId, key |-> k, by |-> by, superseded |-> FALSE]},
              !.nextId = S.nextId + 1]

\* revalidate(opts) of the hook instance `by` for key k.  A deduped call
\* awaits FETCH[key]'s promise; when that promise has already resolved the
\* call finishes with its value (finalState.error = undefined).
Revalidate(S, k, dedupe, by) ==
    IF ShouldStartNewRequest(S, k, dedupe)
    THEN StartRequest(S, k, by)
    ELSE IF Resolved(S, k)
         THEN [S EXCEPT !.cache[k].error = FALSE]
         ELSE S

\* bound mutate() with no argument: internalMutate deletes FETCH[key] and
\* calls the key's revalidator with MUTATE_EVENT (revalidate without dedupe)
Mutate(S, k, by) ==
    LET old == {r \in S.inflight : r.key = k}
        T == [S EXCEPT !.FETCH[k] = 0,
                       !.inflight = (S.inflight \ old) \cup
                           {[r EXCEPT !.superseded = TRUE] : r \in old}]
    IN Revalidate(T, k, FALSE, by)

\* the key whose revalidation a refreshContacts() / refreshOrganizations()
\* call starts: the bound mutate reads keyRef.current, the key of the last
\* committed render of the hook
MutateKey == CurKey

\* variant: a response written to whatever key the hook shows when it arrives
StoreKeyShown(r) == CurKey

\* the cache key a resolved response is written to: the key of the
\* revalidate call that awaited it
StoreKey(r) == r.key

\* variant: a failed request that drops the entry's data
DataOnErrorDropped(entry) == NoData

\* data kept in the cache entry when a request fails: only error is set
DataOnError(entry) == entry.data

\* callbackSafeguard(): `key === keyRef.current` of the hook that started r
CallbackSafeguard(r) ==
    IF r.by = "page" THEN CurKey = r.key ELSE otherKey = r.key

\* the handler's new SWR state; the guard bounds the requests of a run
Install(S) ==
    /\ S.nextId <= MaxReq + 1
    /\ cache' = S.cache
    /\ FETCH' = S.FETCH
    /\ inflight' = S.inflight
    /\ nextId' = S.nextId

--------------------------------------------------------------------------
(* List page: initial state after the first render and its mount effect   *)

\* the settings form is not part of this specification
SettingsIdle ==
    /\ settings = <<>>
    /\ showConfirmModal = FALSE
    /\ chatRetention = <<>>
    /\ puts = <<>>
    /\ serverSettings = <<>>
    /\ refreshPending = FALSE
    /\ lastRequests = <<>>

\* the CRM part of the settings form is not part of this specification
NoCrm == [loaded |-> FALSE]
NoCall == [at |-> "idle"]
CrmIdle ==
    /\ crmStageOptionsRaw = <<>>
    /\ crmCategorySuggestionsRaw = <<>>
    /\ crmSaveInProgress = FALSE
    /\ crmSettings = NoCrm
    /\ serverCrm = NoCrm
    /\ crmCall = NoCall
    /\ crmPreSubmit = <<>>
    /\ crmTouched = FALSE
    /\ crmOutcome = "none"

\* the forms are not part of this specification
FormIdle ==
    /\ formKind = "none"
    /\ formOpen = FALSE
    /\ formInstance = 0
    /\ formValues = <<>>
    /\ formStatus = ""
    /\ formErrors = {}
    /\ isSubmitting = FALSE
    /\ formCalls = {}
    /\ issued = 0
    /\ onSuccessCount = 0
    /\ lastCallbacks = <<>>

\* no transport call and no query string are part of this specification
NoRequest == [fn |-> "none"]
NoResponse == [status |-> 0]
NoOutcome == [kind |-> "none"]
TransportIdle ==
    /\ txCall = NoRequest
    /\ txResponse = NoResponse
    /\ txOutcome = NoOutcome
QueryIdle ==
    /\ qBasePath = <<>>
    /\ qParams = <<>>
    /\ qEntries = <<>>
    /\ qPath = <<>>

\* TagManager is not part of this specification
\* the contact forms' stage options and the list page's paging are not part
\* of the other specifications
NoStageSettings == [loaded |-> FALSE]
NoForm == [kind |-> "none"]
NoSubmit == [made |-> FALSE]
StageIdle ==
    /\ gTenant = <<>>
    /\ gSettings = NoStageSettings
    /\ gContactStatus = <<>>
    /\ gForm = NoForm
    /\ gSubmitted = NoSubmit
    /\ gCount = 0
PagingIdle ==
    /\ pStatusFilter = "all"
    /\ pUrlOrg = ""
    /\ pPageNum = 0
    /\ pCache = <<>>
    /\ pServer = <<>>
    /\ pSteps = 0

\* not part of the other specifications: the list and search functions of crmService.ts
ServiceIdle ==
    /\ sFn = ""
    /\ sArgs = <<>>
    /\ sPath = <<>>

\* not part of the other specifications: the SWR list hooks useCrmContacts, useCrmOrganizations, useCrmInteractions (SpecHooks)
HookIdle ==
    /\ hHook = ""
    /\ hParams = <<>>
    /\ hCache = {}
    /\ hShown = <<>>

\* not part of the other specifications: CrmToolRenderer (SpecTool)
ToolIdle ==
    /\ rPackets = <<>>
    /\ rStopPacketSeen = FALSE
    /\ rRenderType = ""
    /\ rResult = <<>>

\* not part of the other specifications: the activity timeline of the detail pages (SpecLoadMore)
MoreIdle ==
    /\ detailPage = ""
    /\ totalOnServer = 0
    /\ interactionPageSize = 0
    /\ interactionsData = <<>>

NoFlow == [pc |-> "idle"]
NoCallYet == [made |-> FALSE]
TagsIdle ==
    /\ tOpen = FALSE
    /\ tAllTags = {}
    /\ tTagSearch = <<>>
    /\ tIsCreating = FALSE
    /\ tTags = <<>>
    /\ tServerTags = {}
    /\ tServerAttached = <<>>
    /\ tCreate = NoFlow
    /\ tReqs = {}
    /\ tIssued = 0
    /\ tLastCreate = NoCallYet
    /\ tLastAttach = NoCallYet

\* the contact detail page is not part of this specification
DetailIdle ==
    /\ dContactId = ""
    /\ dContact = [loaded |-> FALSE]
    /\ dOrgLoaded = {}
    /\ dFETCH = <<>>
    /\ dInflight = {}
    /\ dNextId = 1
    /\ dServerOrgId = ""
    /\ dEverLinked = FALSE
    /\ dCalls = <<>>

KeyZero == ListKey(Undefined, 0, PAGE_SIZE)

InitList ==
    /\ MoreIdle
    /\ ToolIdle
    /\ HookIdle
    /\ ServiceIdle
    /\ TagsIdle
    /\ StageIdle
    /\ PagingIdle
    /\ DetailIdle
    /\ SettingsIdle
    /\ CrmIdle
    /\ FormIdle
    /\ TransportIdle
    /\ QueryIdle
    /\ searchText = ""
    /\ pageNum = 0
    /\ createModalOpen = FALSE
    /\ createInFlight = 0
    /\ cache = [k \in Keys |-> NoEntry]
    /\ FETCH = [k \in Keys |-> IF k = KeyZero THEN 1 ELSE 0]
    /\ inflight = {[id |-> 1, key |-> KeyZero, by |-> "page", superseded |-> FALSE]}
    /\ nextId = 2
    /\ retry = {}
    /\ otherKey = NoKey
    /\ lateResponse = FALSE

\* variant: a key change that starts nothing
KeyChangeNoFetch(S, k) == S

\* key change of the page's hook: the effect of the new key runs
\* softRevalidate (revalidate with dedupe)
KeyChange(S, k) == Revalidate(S, k, TRUE, "page")

\* search box onChange: setSearchText(value); setPageNum(0)
SetSearchText(q) ==
    /\ ~createModalOpen
    /\ q # searchText
    /\ searchText' = q
    /\ pageNum' = 0
    /\ Install(KeyChange(SwrState, ListKey(OrUndefined(q), 0, PAGE_SIZE)))
    /\ UNCHANGED notListVars
    /\ UNCHANGED <<createModalOpen, createInFlight, retry, otherKey, lateResponse>>

\* isLoading of the hook: no data yet and a request being awaited
IsLoading(k) == ~Loaded(k) /\ FETCH[k] # 0 /\ ~Resolved(SwrState, k)

\* Pagination onPageChange: shown when !isLoading && items.length > 0 && totalPages > 1
SetPageNum(p) ==
    /\ ~createModalOpen
    /\ p # pageNum
    /\ ~IsLoading(CurKey) /\ Loaded(CurKey)
    /\ pageNum' = p
    /\ Install(KeyChange(SwrState, ListKey(OrUndefined(searchText), p, PAGE_SIZE)))
    /\ UNCHANGED notListVars
    /\ UNCHANGED <<searchText, createModalOpen, createInFlight, retry, otherKey, lateResponse>>

\* "New Contact" / "New Organization" button
OpenCreateModal ==
    /\ ~createModalOpen
    /\ createModalOpen' = TRUE
    /\ UNCHANGED notListVars
    /\ UNCHANGED <<searchText, pageNum, createInFlight, cache, FETCH, inflight, nextId,
                   retry, otherKey, lateResponse>>

\* Cancel / header close: onOpenChange(false); the form unmounts
CloseCreateModal ==
    /\ createModalOpen
    /\ createModalOpen' = FALSE
    /\ UNCHANGED notListVars
    /\ UNCHANGED <<searchText, pageNum, createInFlight, cache, FETCH, inflight, nextId,
                   retry, otherKey, lateResponse>>

\* Formik submit of a valid form: the service call starts
SubmitCreate ==
    /\ createModalOpen
    /\ createInFlight < MaxCreate
    /\ createInFlight' = createInFlight + 1
    /\ UNCHANGED notListVars
    /\ UNCHANGED <<searchText, pageNum, createModalOpen, cache, FETCH, inflight, nextId,
                   retry, otherKey, lateResponse>>

\* the create call resolves: onSuccess() = { setPageNum(0); void refresh() },
\* then onOpenChange(false); the re-render with the new key follows
CreateResolves ==
    /\ createInFlight > 0
    /\ createInFlight' = createInFlight - 1
    /\ pageNum' = 0
    /\ createModalOpen' = FALSE
    /\ LET S1 == Mutate(SwrState, MutateKey, "page")
           k0 == ListKey(OrUndefined(searchText), 0, PAGE_SIZE)
           S2 == IF k0 # CurKey THEN KeyChange(S1, k0) ELSE S1
       IN Install(S2)
    /\ UNCHANGED notListVars
    /\ UNCHANGED <<searchText, retry, otherKey, lateResponse>>

\* the create call rejects: setStatus(...), nothing else
CreateRejects ==
    /\ createInFlight > 0
    /\ createInFlight' = createInFlight - 1
    /\ UNCHANGED notListVars
    /\ UNCHANGED <<searchText, pageNum, createModalOpen, cache, FETCH, inflight, nextId,
                   retry, otherKey, lateResponse>>

\* a list request resolves with a 2xx JSON body
FetchResolves(r) ==
    /\ r \in inflight
    /\ inflight' = inflight \ {r}
    /\ lateResponse' = (lateResponse \/ (r.key # CurKey /\ Loaded(CurKey)))
    /\ cache' = IF FETCH[r.key] # r.id
                THEN cache
                ELSE [cache EXCEPT ![StoreKey(r)] =
                        [data |-> [key |-> r.key, rid |-> r.id], error |-> FALSE]]
    /\ UNCHANGED notListVars
    /\ UNCHANGED <<searchText, pageNum, createModalOpen, createInFlight,
                   FETCH, nextId, retry, otherKey>>

\* a list request rejects: cleanupState(), finalState.error = err, and
\* onErrorRetry when the hook that started it still has the key
FetchRejects(r) ==
    /\ r \in inflight
    /\ inflight' = inflight \ {r}
    /\ FETCH' = IF FETCH[r.key] = r.id THEN [FETCH EXCEPT ![r.key] = 0] ELSE FETCH
    /\ cache' = [cache EXCEPT ![r.key] =
                    [data |-> DataOnError(cache[r.key]), error |-> TRUE]]
    /\ retry' = IF CallbackSafeguard(r) THEN retry \cup {r.key} ELSE retry
    /\ UNCHANGED notListVars
    /\ UNCHANGED <<searchText, pageNum, createModalOpen, createInFlight,
                   nextId, otherKey, lateResponse>>

\* setTimeout(cleanupState, dedupingInterval) fires for a resolved request
Cleanup(k) ==
    /\ Resolved(SwrState, k)
    /\ FETCH' = [FETCH EXCEPT ![k] = 0]
    /\ UNCHANGED notListVars
    /\ UNCHANGED <<searchText, pageNum, createModalOpen, createInFlight,
                   cache, inflight, nextId, retry, otherKey, lateResponse>>

\* the onErrorRetry timer fires: the key's first revalidator, if a hook is
\* still mounted on the key, revalidates with dedupe
RetryFire(k) ==
    /\ k \in retry
    /\ retry' = retry \ {k}
    /\ IF CurKey = k THEN Install(Revalidate(SwrState, k, TRUE, "page"))
       ELSE IF otherKey = k THEN Install(Revalidate(SwrState, k, TRUE, "other"))
       ELSE UNCHANGED <<cache, FETCH, inflight, nextId>>
    /\ UNCHANGED notListVars
    /\ UNCHANGED <<searchText, pageNum, createModalOpen, createInFlight,
                   otherKey, lateResponse>>

\* a second component mounts the same hook with the same key (same filters,
\* page number and page size as the page's hook call): softRevalidate
OtherMount(k) ==
    /\ otherKey = NoKey
    /\ otherKey' = k
    /\ Install(Revalidate(SwrState, k, TRUE, "other"))
    /\ UNCHANGED notListVars
    /\ UNCHANGED <<searchText, pageNum, createModalOpen, createInFlight, retry, lateResponse>>

OtherUnmount ==
    /\ otherKey # NoKey
    /\ otherKey' = NoKey
    /\ UNCHANGED notListVars
    /\ UNCHANGED <<searchText, pageNum, createModalOpen, createInFlight,
                   cache, FETCH, inflight, nextId, retry, lateResponse>>

NextList ==
    \/ \E q \in Queries : SetSearchText(q)
    \/ \E p \in Pages : SetPageNum(p)
    \/ OpenCreateModal
    \/ CloseCreateModal
    \/ SubmitCreate
    \/ CreateResolves
    \/ CreateRejects
    \/ \E r \in inflight : FetchResolves(r)
    \/ \E r \in inflight : FetchRejects(r)
    \/ \E k \in Keys : Cleanup(k)
    \/ \E k \in Keys : RetryFire(k)
    \/ OtherMount(CurKey)
    \/ OtherUnmount

SpecList == InitList /\ [][NextList]_vars

--------------------------------------------------------------------------
(* Claims about the list hooks and list pages (SpecList)                   *)

KeyAcme == ListKey("acme", 0, PAGE_SIZE)

\* C1: a response is only ever stored under, and displayed for, the cache
\* key of the request that produced it; so when the search text went from A
\* to B and A's response arrives after B's, the list shown for B is B's.
C1_ResponseUnderOwnKey ==
    \A k \in Keys : Loaded(k) => HookData(k).key = k

\* the race of C1 has happened: the search text is "acme", its list is shown,
\* and the response for the key the page left arrived afterwards and is cached
C1_Witness ==
    /\ lateResponse
    /\ searchText = "acme" /\ pageNum = 0
    /\ Loaded(KeyAcme) /\ HookData(KeyAcme).rid = 2
    /\ Loaded(KeyZero) /\ HookData(KeyZero).rid = 1
    /\ nextId = 3

InFlightFor(k) == {r \in inflight : r.key = k}

\* C2 as stated: for every cache key at most one request is in flight at any time.
C2_AtMostOneInFlight ==
    \A k \in Keys : Cardinality(InFlightFor(k)) <= 1

\* C2 as amended: for every cache key at most one request that no refresh has
\* superseded is in flight; a subscriber mounting on a key whose fetch is
\* unresolved issues no request.  Only refresh (bound mutate) starts a request
\* beside an unresolved one, and it supersedes that one.
C2_SingleFlightUnlessRefreshed ==
    \A k \in Keys : Cardinality({r \in InFlightFor(k) : ~r.superseded}) <= 1

\* a second subscriber has mounted on the page's key while the only request
\* ever issued, the page's first fetch, is unresolved
C2_Witness ==
    /\ otherKey = CurKey
    /\ nextId = 2
    /\ \E r \in inflight : r.id = 1 /\ r.key = CurKey /\ r.by = "page"

\* C3: once a key has loaded, the hook keeps returning data for it; the data
\* changes only to the response of a newer request for that key that has just
\* resolved, never on a failure and never while a revalidation is in flight.
C3_KeepsLastGood ==
    [][\A k \in Keys :
         Loaded(k) =>
           /\ cache'[k].data.rid # 0
           /\ cache'[k].data # cache[k].data =>
                \E r \in inflight :
                    /\ r \notin inflight'
                    /\ r.key = k
                    /\ r.id > cache[k].data.rid
                    /\ cache'[k] = [data |-> [key |-> k, rid |-> r.id], error |-> FALSE]
      ]_vars

\* the current key loaded, was refreshed, and the revalidation failed: error
\* is set and the data of the first load is still returned
C3_Witness ==
    /\ Loaded(CurKey)
    /\ cache[CurKey].error
    /\ HookData(CurKey).rid < nextId - 1
    /\ InFlightFor(CurKey) = {}

\* C8: when a create succeeds, the key the page shows next (page 0 with the
\* current filters) gets a request issued after the create succeeded.
C8_CreateInvalidatesShownKey ==
    [][CreateResolves =>
         \E r \in inflight' : r.key = CurKey' /\ r.id >= nextId]_vars

\* a request for key k is started by the step
FetchStarted(k) == \E r \in inflight' \ inflight : r.key = k

\* equal filter values (undefined and "" being the same), page number and
\* page size give the same key, anything else a different one
KeysDistinguish ==
    \A q1, q2 \in Queries \cup {Undefined}, p1, p2 \in Pages,
       s1, s2 \in {PAGE_SIZE, 2 * PAGE_SIZE} :
        (ListKey(q1, p1, s1) = ListKey(q2, p2, s2))
            <=> (Coalesce(q1) = Coalesce(q2) /\ p1 = p2 /\ s1 = s2)

\* the page's refresh call: onSuccess of the create modal
RefreshRevalidatesCurrentKey ==
    CreateResolves =>
        /\ \E r \in inflight' : r.key = CurKey /\ r.id >= nextId
        /\ pageNum = 0 => CurKey' = CurKey

C13_NoAutomaticRetry ==
    [][\A k \in Keys :
          (cache[k].error /\ FetchStarted(k)) =>
              \/ CurKey' # CurKey
              \/ CreateResolves
              \/ otherKey' # otherKey
      ]_vars

--------------------------------------------------------------------------
(* SettingsForm: values                                                    *)

Null == [t |-> "null"]
Bool(b) == [t |-> "bool", b |-> b]
Num(n) == [t |-> "num", n |-> n]

DigitChars == {"0", "7"}
DigitOf(c) == CASE c = "0" -> 0 [] c = "1" -> 1 [] c = "2" -> 2 [] c = "3" -> 3
                [] c = "4" -> 4 [] c = "5" -> 5 [] c = "6" -> 6 [] c = "7" -> 7
                [] c = "8" -> 8 [] c = "9" -> 9
CharOf(d) == CASE d = 0 -> "0" [] d = 1 -> "1" [] d = 2 -> "2" [] d = 3 -> "3"
               [] d = 4 -> "4" [] d = 5 -> "5" [] d = 6 -> "6" [] d = 7 -> "7"
               [] d = 8 -> "8" [] d = 9 -> "9"

\* texts the retention input can hold: digit strings up to MaxDigits characters
DigitStrings == UNION {[1 .. n -> DigitChars] : n \in 0 .. MaxDigits}

\* parseInt(text, 10) of a digit string; NaN for the empty string
NaN == Null
RECURSIVE DigitsValue(_)
DigitsValue(str) ==
    IF str = <<>> THEN 0
    ELSE 10 * DigitsValue(SubSeq(str, 1, Len(str) - 1)) + DigitOf(str[Len(str)])
ParseInt(str) == IF str = <<>> THEN NaN ELSE Num(DigitsValue(str))

\* Number.prototype.toString() of a non-negative integer
RECURSIVE NumToString(_)
NumToString(n) ==
    IF n < 10 THEN <<CharOf(n)>> ELSE Append(NumToString(n \div 10), CharOf(n % 10))

\* `maximum_chat_retention_days?.toString() || ""`
RetentionText(v) == IF v = Null THEN <<>> ELSE NumToString(v.n)

RetentionValues == {Null} \cup {ParseInt(str) : str \in {x \in DigitStrings :
                                    x # <<>> /\ DigitsValue(x) >= 1}}

SettingsValues ==
    [anonymous_user_enabled : {Bool(TRUE), Bool(FALSE)},
     deep_research_enabled : {Bool(TRUE), Bool(FALSE)},
     maximum_chat_retention_days : RetentionValues]

ToggleFields == {"anonymous_user_enabled", "deep_research_enabled"}

--------------------------------------------------------------------------
(* SettingsForm.updateSettingField                                         *)

\* variant: a merge that takes the requested value as it is
MergeRequested(newValue, current) == newValue

\* `newValue ?? settings[fieldName]`
MergeValue(newValue, current) == IF newValue = Null THEN current ELSE newValue

\* newSettings: { ...settings, ...updateRequests.reduce(...) }
NewSettings(s, updateRequests) ==
    [f \in DOMAIN s |->
        LET idx == {i \in 1 .. Len(updateRequests) : updateRequests[i].fieldName = f}
        IN IF idx = {} THEN s[f]
           ELSE LET last == CHOOSE i \in idx : \A j \in idx : j <= i
                IN MergeValue(updateRequests[last].newValue, s[f])]

\* variant: a failure handler that leaves the optimistic value in place
RevertToCurrent(call) == settings

\* catch: setSettings(settings), the settings of the render that made the call
RevertTo(call) == call.snapshot

RemoveAt(seq, i) == SubSeq(seq, 1, i - 1) \o SubSeq(seq, i + 1, Len(seq))

\* history kept in a call's record: how a call that overlapped it has settled
\* while it was in flight, with no further call started since
NoMark == [kind |-> "none"]
MarkOf(kind, call) ==
    [kind |-> kind, requests |-> call.requests, body |-> call.body,
     snapshot |-> call.snapshot]

\* the calls left in flight when call i settles; those started after a failed
\* call, and those started before a successful one, remember it
PutsAfterSettle(i, ok) ==
    LET marked == [j \in 1 .. Len(puts) |->
                      IF ~ok /\ j > i THEN [puts[j] EXCEPT !.mark = MarkOf("firstFailed", puts[i])]
                      ELSE IF ok /\ j < i
                           THEN [puts[j] EXCEPT !.mark = MarkOf("secondOk", puts[i])]
                           ELSE puts[j]]
    IN RemoveAt(marked, i)

\* updateSettingField up to its await: setSettings(newSettings); fetch(PUT, newSettings)
UpdateSettingField(updateRequests) ==
    /\ Len(puts) < MaxPut
    /\ settings' = NewSettings(settings, updateRequests)
    /\ puts' = Append([i \in 1 .. Len(puts) |-> [puts[i] EXCEPT !.mark = NoMark]],
                       [snapshot |-> settings,
                        body |-> NewSettings(settings, updateRequests),
                        requests |-> updateRequests,
                        mark |-> NoMark])
    /\ lastRequests' = updateRequests

\* the PUT resolves with response.ok: router.refresh(); toast.success
PutResolves(i) ==
    /\ i \in 1 .. Len(puts)
    /\ serverSettings' = puts[i].body
    /\ puts' = PutsAfterSettle(i, TRUE)
    /\ refreshPending' = TRUE
    /\ UNCHANGED <<settings, showConfirmModal, chatRetention, lastRequests>>
    /\ UNCHANGED notSettingsVars

\* the PUT rejects or the response is not OK: the catch block
PutFails(i) ==
    /\ i \in 1 .. Len(puts)
    /\ settings' = RevertTo(puts[i])
    /\ puts' = PutsAfterSettle(i, FALSE)
    /\ UNCHANGED <<showConfirmModal, chatRetention, serverSettings, refreshPending,
                   lastRequests>>
    /\ UNCHANGED notSettingsVars

\* useEffect([combinedSettings]): the refreshed SettingsContext arrives
CombinedSettingsEffect ==
    /\ refreshPending
    /\ refreshPending' = FALSE
    /\ settings' = serverSettings
    /\ chatRetention' = RetentionText(serverSettings.maximum_chat_retention_days)
    /\ UNCHANGED <<showConfirmModal, puts, serverSettings, lastRequests>>
    /\ UNCHANGED notSettingsVars

\* variant: the checkbox updates every field at once, without a modal
HandleToggleSettingsFieldDirect(fieldName) ==
    /\ ~showConfirmModal
    /\ UpdateSettingField(<<[fieldName |-> fieldName,
                             newValue |-> Bool(~settings[fieldName].b)]>>)
    /\ UNCHANGED <<showConfirmModal, chatRetention, serverSettings, refreshPending>>
    /\ UNCHANGED notSettingsVars

\* Checkbox onChange: handleToggleSettingsField(fieldName, e.target.checked)
HandleToggleSettingsField(fieldName) ==
    LET checked == ~settings[fieldName].b
    IN /\ ~showConfirmModal
       /\ IF fieldName = "anonymous_user_enabled" /\ checked
          THEN /\ showConfirmModal' = TRUE
               /\ UNCHANGED <<settings, puts, lastRequests>>
          ELSE /\ UpdateSettingField(<<[fieldName |-> fieldName, newValue |-> Bool(checked)]>>)
               /\ UNCHANGED showConfirmModal
       /\ UNCHANGED <<chatRetention, serverSettings, refreshPending>>
       /\ UNCHANGED notSettingsVars

\* Confirm button of the modal
HandleConfirmAnonymousUsers ==
    /\ showConfirmModal
    /\ UpdateSettingField(<<[fieldName |-> "anonymous_user_enabled", newValue |-> Bool(TRUE)]>>)
    /\ showConfirmModal' = FALSE
    /\ UNCHANGED <<chatRetention, serverSettings, refreshPending>>
    /\ UNCHANGED notSettingsVars

\* Cancel / close of the modal: setShowConfirmModal(false)
CloseConfirmModal ==
    /\ showConfirmModal
    /\ showConfirmModal' = FALSE
    /\ UNCHANGED <<settings, chatRetention, puts, serverSettings, refreshPending, lastRequests>>
    /\ UNCHANGED notSettingsVars

\* IntegerInput onChange: kept when parseInt(value) >= 1 or value === ""
ChatRetentionOnChange(value) ==
    /\ ~showConfirmModal
    /\ value # chatRetention
    /\ value = <<>> \/ DigitsValue(value) >= 1
    /\ chatRetention' = value
    /\ UNCHANGED <<settings, showConfirmModal, puts, serverSettings, refreshPending,
                   lastRequests>>
    /\ UNCHANGED notSettingsVars

\* "Set Retention Limit"
HandleSetChatRetention ==
    /\ ~showConfirmModal
    /\ UpdateSettingField(<<[fieldName |-> "maximum_chat_retention_days",
                             newValue |-> IF chatRetention = <<>> THEN Null
                                          ELSE ParseInt(chatRetention)]>>)
    /\ UNCHANGED <<showConfirmModal, chatRetention, serverSettings, refreshPending>>
    /\ UNCHANGED notSettingsVars

\* "Retain All"
HandleClearChatRetention ==
    /\ ~showConfirmModal
    /\ chatRetention' = <<>>
    /\ UpdateSettingField(<<[fieldName |-> "maximum_chat_retention_days",
                             newValue |-> Null]>>)
    /\ UNCHANGED <<showConfirmModal, serverSettings, refreshPending>>
    /\ UNCHANGED notSettingsVars

ListIdle ==
    /\ searchText = ""
    /\ pageNum = 0
    /\ createModalOpen = FALSE
    /\ createInFlight = 0
    /\ cache = [k \in Keys |-> NoEntry]
    /\ FETCH = [k \in Keys |-> 0]
    /\ inflight = {}
    /\ nextId = 1
    /\ retry = {}
    /\ otherKey = NoKey
    /\ lateResponse = FALSE

\* after the first useEffect([combinedSettings]) of the mounted form
InitSettings ==
    /\ MoreIdle
    /\ ToolIdle
    /\ HookIdle
    /\ ServiceIdle
    /\ TagsIdle
    /\ StageIdle
    /\ PagingIdle
    /\ DetailIdle
    /\ ListIdle
    /\ CrmIdle
    /\ FormIdle
    /\ TransportIdle
    /\ QueryIdle
    /\ serverSettings \in SettingsValues
    /\ settings = serverSettings
    /\ chatRetention = RetentionText(serverSettings.maximum_chat_retention_days)
    /\ showConfirmModal = FALSE
    /\ puts = <<>>
    /\ refreshPending = FALSE
    /\ lastRequests = <<>>

NextSettings ==
    \/ \E f \in ToggleFields : HandleToggleSettingsField(f)
    \/ HandleConfirmAnonymousUsers
    \/ CloseConfirmModal
    \/ \E value \in DigitStrings : ChatRetentionOnChange(value)
    \/ HandleSetChatRetention
    \/ HandleClearChatRetention
    \/ \E i \in 1 .. MaxPut : PutResolves(i)
    \/ \E i \in 1 .. MaxPut : PutFails(i)
    \/ CombinedSettingsEffect

SpecSettings == InitSettings /\ [][NextSettings]_vars

\* C4: updateSettingField applies the requested field values to the local
\* settings before the request resolves; a failed request sets the local
\* settings back to the snapshot taken immediately before the patch; a
\* successful request keeps the merged value.
C4_OptimisticThenRollback ==
    [][/\ Len(puts') > Len(puts) =>
            \A i \in 1 .. Len(lastRequests') :
                settings'[lastRequests'[i].fieldName] = lastRequests'[i].newValue
       /\ \A i \in 1 .. Len(puts) : PutFails(i) => settings' = puts[i].snapshot
       /\ \A i \in 1 .. Len(puts) : PutResolves(i) => settings' = settings
      ]_vars

\* C4 without its first part for requests whose value is null
C4_NonNullOptimisticThenRollback ==
    [][/\ Len(puts') > Len(puts) =>
            \A i \in 1 .. Len(lastRequests') :
                lastRequests'[i].newValue # Null =>
                    settings'[lastRequests'[i].fieldName] = lastRequests'[i].newValue
       /\ \A i \in 1 .. Len(puts) : PutFails(i) => settings' = puts[i].snapshot
       /\ \A i \in 1 .. Len(puts) : PutResolves(i) => settings' = settings
      ]_vars

\* the fields a call asked to change
FieldsOf(requests) == {requests[i].fieldName : i \in 1 .. Len(requests)}

\* s holds what `second` sent for its fields, and for the other fields of
\* `first` the value from before that call
OnlySecondApplied(s, first, before, second, secondBody) ==
    /\ \A f \in FieldsOf(second) : s[f] = secondBody[f]
    /\ \A f \in FieldsOf(first) \ FieldsOf(second) : s[f] = before[f]

\* C23: when two updateSettingField calls overlap, the first fails and the
\* second succeeds, then once both have settled the local settings hold the
\* second call's change and not the first call's.
C23_RollbackUndoesOnlyFailedCall ==
    [][\A i \in 1 .. Len(puts) :
         /\ (PutResolves(i) /\ puts[i].mark.kind = "firstFailed") =>
                OnlySecondApplied(settings', puts[i].mark.requests, puts[i].mark.snapshot,
                                  puts[i].requests, puts[i].body)
         /\ (PutFails(i) /\ puts[i].mark.kind = "secondOk") =>
                OnlySecondApplied(settings', puts[i].requests, puts[i].snapshot,
                                  puts[i].mark.requests, puts[i].mark.body)
      ]_vars

\* a call that clears the retention limit is made in this step: Retain All,
\* or Set Retention Limit with an empty input
ClearsRetention ==
    /\ Len(puts') > Len(puts)
    /\ lastRequests' = <<[fieldName |-> "maximum_chat_retention_days", newValue |-> Null]>>

\* C25: clearing the chat retention limit sets the local
\* maximum_chat_retention_days to null and sends a request whose
\* maximum_chat_retention_days is null.
C25_ClearingRetentionSendsNull ==
    [][ClearsRetention =>
         /\ settings'.maximum_chat_retention_days = Null
         /\ puts'[Len(puts')].body.maximum_chat_retention_days = Null
      ]_vars

AnonymousOn(s) == s.anonymous_user_enabled = Bool(TRUE)

--------------------------------------------------------------------------
(* SettingsForm: CRM settings.  A text is the sequence of its lines        *)
(* (text.split("\n")), a line the sequence of its characters.              *)

ToLowerChar(c) == CASE c = "A" -> "a" [] c = "B" -> "b" [] OTHER -> c
ToLowerCase(line) == [i \in 1 .. Len(line) |-> ToLowerChar(line[i])]

\* String.prototype.trim()
RECURSIVE TrimStart(_)
TrimStart(line) ==
    IF line # <<>> /\ Head(line) = " " THEN TrimStart(Tail(line)) ELSE line
RECURSIVE TrimEnd(_)
TrimEnd(line) ==
    IF line # <<>> /\ line[Len(line)] = " "
    THEN TrimEnd(SubSeq(line, 1, Len(line) - 1)) ELSE line
Trim(line) == TrimEnd(TrimStart(line))

\* rawValue.split(/\r?\n/).map((line) => line.trim()).filter(Boolean)
NormalizedLines(rawValue) ==
    SelectSeq([i \in 1 .. Len(rawValue) |-> Trim(rawValue[i])], LAMBDA l : l # <<>>)

\* the for loop of parseMultiLineValues: first occurrence wins, compared lower-cased
RECURSIVE Dedupe(_, _, _)
Dedupe(lines, lowerCase, dedupedValues) ==
    IF lines = <<>> THEN dedupedValues
    ELSE LET normalizedValue == IF lowerCase THEN ToLowerCase(Head(lines)) ELSE Head(lines)
             dedupeKey == ToLowerCase(normalizedValue)
             seen == {ToLowerCase(dedupedValues[i]) : i \in 1 .. Len(dedupedValues)}
         IN IF dedupeKey \in seen
            THEN Dedupe(Tail(lines), lowerCase, dedupedValues)
            ELSE Dedupe(Tail(lines), lowerCase, Append(dedupedValues, normalizedValue))

parseMultiLineValues(rawValue, lowerCase) ==
    Dedupe(NormalizedLines(rawValue), lowerCase, <<>>)

\* `(options || []).join("\n")`, as lines: the empty text has one empty line
JoinLines(options) == IF options = <<>> THEN << <<>> >> ELSE options

DEFAULT_CRM_STAGE_OPTIONS ==
    << <<"l", "e", "a", "d">>, <<"a", "c", "t", "i", "v", "e">>,
       <<"i", "n", "a", "c", "t", "i", "v", "e">>,
       <<"a", "r", "c", "h", "i", "v", "e", "d">> >>
DEFAULT_CRM_CATEGORY_SUGGESTIONS ==
    << <<"P", "o", "l", "i", "c", "y", " ", "M", "a", "k", "e", "r">>,
       <<"J", "o", "u", "r", "n", "a", "l", "i", "s", "t">>,
       <<"A", "c", "a", "d", "e", "m", "i", "c">>,
       <<"A", "l", "l", "i", "e", "d", " ", "O", "r", "g">>,
       <<"L", "a", "b", " ", "M", "e", "m", "b", "e", "r">> >>

\* lines a user types into the stage textarea, and the texts made of them
StageLines == {<<>>, <<"A">>, <<" ", "a">>}
StageTexts == UNION {[1 .. n -> StageLines] : n \in 1 .. MaxLines}
CategoryTexts == {<< <<>> >>, << <<"A">>, <<"a", " ">> >>}

\* what the backend can hold at mount
ServerCrmValues ==
    {[loaded |-> TRUE, contact_stage_options |-> st, contact_category_suggestions |-> ca] :
        st \in {DEFAULT_CRM_STAGE_OPTIONS, << <<"a">> >>},
        ca \in {<<>>}}

\* useEffect([crmSettings]): runs when the hook returns a new crmSettings value
CrmSettingsEffect(newCrm, stage, category) ==
    IF newCrm = crmSettings \/ newCrm = NoCrm
    THEN [stage |-> stage, category |-> category, ran |-> FALSE]
    ELSE [stage |-> JoinLines(newCrm.contact_stage_options),
          category |-> JoinLines(newCrm.contact_category_suggestions),
          ran |-> TRUE]

\* after the first render: useCrmSettings has no data yet, its GET is in flight
InitCrm ==
    /\ MoreIdle
    /\ ToolIdle
    /\ HookIdle
    /\ ServiceIdle
    /\ TagsIdle
    /\ StageIdle
    /\ PagingIdle
    /\ DetailIdle
    /\ ListIdle
    /\ SettingsIdle
    /\ FormIdle
    /\ TransportIdle
    /\ QueryIdle
    /\ serverCrm \in ServerCrmValues
    /\ crmSettings = NoCrm
    /\ crmStageOptionsRaw = << <<>> >>
    /\ crmCategorySuggestionsRaw = << <<>> >>
    /\ crmSaveInProgress = FALSE
    /\ crmCall = NoCall
    /\ crmPreSubmit = <<>>
    /\ crmTouched = FALSE
    /\ crmOutcome = "none"

\* the GET /api/user/crm/settings of the hook resolves (first load, or a
\* revalidation outside a save)
CrmSettingsLoaded ==
    /\ crmCall.at \in {"idle", "patch"}
    /\ crmSettings # serverCrm
    /\ LET e == CrmSettingsEffect(serverCrm, crmStageOptionsRaw, crmCategorySuggestionsRaw)
       IN /\ crmStageOptionsRaw' = e.stage
          /\ crmCategorySuggestionsRaw' = e.category
          /\ crmTouched' = (crmTouched \/ e.ran)
    /\ crmSettings' = serverCrm
    /\ UNCHANGED <<crmSaveInProgress, serverCrm, crmCall, crmPreSubmit, crmOutcome>>
    /\ UNCHANGED notCrmVars

\* textarea onChange
EditStageOptions(text) ==
    /\ text # crmStageOptionsRaw
    /\ crmStageOptionsRaw' = text
    /\ crmTouched' = TRUE
    /\ UNCHANGED <<crmCategorySuggestionsRaw, crmSaveInProgress, crmSettings, serverCrm,
                   crmCall, crmPreSubmit, crmOutcome>>
    /\ UNCHANGED notCrmVars

EditCategorySuggestions(text) ==
    /\ text # crmCategorySuggestionsRaw
    /\ crmCategorySuggestionsRaw' = text
    /\ crmTouched' = TRUE
    /\ UNCHANGED <<crmStageOptionsRaw, crmSaveInProgress, crmSettings, serverCrm,
                   crmCall, crmPreSubmit, crmOutcome>>
    /\ UNCHANGED notCrmVars

\* "Reset CRM Defaults" (disabled while a save is in progress)
HandleResetCrmSettingsToDefaults ==
    /\ ~crmSaveInProgress
    /\ crmStageOptionsRaw' = JoinLines(DEFAULT_CRM_STAGE_OPTIONS)
    /\ crmCategorySuggestionsRaw' = JoinLines(DEFAULT_CRM_CATEGORY_SUGGESTIONS)
    /\ crmTouched' = TRUE
    /\ UNCHANGED <<crmSaveInProgress, crmSettings, serverCrm, crmCall, crmPreSubmit,
                   crmOutcome>>
    /\ UNCHANGED notCrmVars

\* variant: a save that writes the parsed values into the textarea before the await
StageTextOnSubmitParsed(text, parsedStageOptions) == JoinLines(parsedStageOptions)

\* the stage text while the PATCH is awaited: handleSaveCrmSettings does not touch it
StageTextOnSubmit(text, parsedStageOptions) == text

\* handleSaveCrmSettings up to `await patchCrmSettings(...)`
HandleSaveCrmSettings ==
    LET parsedStageOptions == parseMultiLineValues(crmStageOptionsRaw, TRUE)
        parsedCategorySuggestions == parseMultiLineValues(crmCategorySuggestionsRaw, FALSE)
    IN /\ ~crmSaveInProgress
       /\ IF parsedStageOptions = <<>>
          THEN \* toast.error("CRM stages must include at least one value."); return
               /\ crmOutcome' = "refused"
               /\ UNCHANGED <<crmStageOptionsRaw, crmSaveInProgress, crmCall, crmPreSubmit,
                              crmTouched>>
          ELSE /\ crmSaveInProgress' = TRUE
               /\ crmCall' = [at |-> "patch",
                              body |-> [contact_stage_options |-> parsedStageOptions,
                                        contact_category_suggestions |->
                                            parsedCategorySuggestions]]
               /\ crmStageOptionsRaw' =
                      StageTextOnSubmit(crmStageOptionsRaw, parsedStageOptions)
               /\ crmPreSubmit' = [stage |-> crmStageOptionsRaw,
                                   category |-> crmCategorySuggestionsRaw]
               /\ crmTouched' = FALSE
               /\ crmOutcome' = "submitted"
       /\ UNCHANGED <<crmCategorySuggestionsRaw, crmSettings, serverCrm>>
       /\ UNCHANGED notCrmVars

\* patchCrmSettings resolves: the two texts are set from the response, then
\* `await refreshCrmSettings()` starts a revalidation
PatchCrmResolves ==
    /\ crmCall.at = "patch"
    /\ LET updatedCrmSettings ==
               [loaded |-> TRUE,
                contact_stage_options |-> crmCall.body.contact_stage_options,
                contact_category_suggestions |-> crmCall.body.contact_category_suggestions]
       IN /\ serverCrm' = updatedCrmSettings
          /\ crmStageOptionsRaw' = JoinLines(updatedCrmSettings.contact_stage_options)
          /\ crmCategorySuggestionsRaw' =
                 JoinLines(updatedCrmSettings.contact_category_suggestions)
    /\ crmCall' = [crmCall EXCEPT !.at = "refresh"]
    /\ crmPreSubmit' = <<>>
    /\ UNCHANGED <<crmSaveInProgress, crmSettings, crmTouched, crmOutcome>>
    /\ UNCHANGED notCrmVars

\* patchCrmSettings rejects: catch (toast.error), finally setCrmSaveInProgress(false)
PatchCrmRejects ==
    /\ crmCall.at = "patch"
    /\ crmCall' = NoCall
    /\ crmSaveInProgress' = FALSE
    /\ crmOutcome' = "rejected"
    /\ crmPreSubmit' = <<>>
    /\ UNCHANGED <<crmStageOptionsRaw, crmCategorySuggestionsRaw, crmSettings, serverCrm,
                   crmTouched>>
    /\ UNCHANGED notCrmVars

\* the revalidation started by refreshCrmSettings() settles; the awaited
\* mutate() resolves either way: toast.success, finally setCrmSaveInProgress(false)
RefreshCrmSettles(ok) ==
    /\ crmCall.at = "refresh"
    /\ LET newCrm == IF ok THEN serverCrm ELSE crmSettings
           e == CrmSettingsEffect(newCrm, crmStageOptionsRaw, crmCategorySuggestionsRaw)
       IN /\ crmSettings' = newCrm
          /\ crmStageOptionsRaw' = e.stage
          /\ crmCategorySuggestionsRaw' = e.category
          /\ crmTouched' = (crmTouched \/ e.ran)
    /\ crmCall' = NoCall
    /\ crmSaveInProgress' = FALSE
    /\ crmOutcome' = "saved"
    /\ UNCHANGED <<serverCrm, crmPreSubmit>>
    /\ UNCHANGED notCrmVars

NextCrm ==
    \/ CrmSettingsLoaded
    \/ \E text \in StageTexts : EditStageOptions(text)
    \/ \E text \in CategoryTexts : EditCategorySuggestions(text)
    \/ HandleResetCrmSettingsToDefaults
    \/ HandleSaveCrmSettings
    \/ PatchCrmResolves
    \/ PatchCrmRejects
    \/ \E ok \in BOOLEAN : RefreshCrmSettles(ok)

SpecCrm == InitCrm /\ [][NextCrm]_vars

\* C5: when patchCrmSettings rejects, the form's visible CRM state (the two
\* textareas) is left as it is, and it equals its value at submit unless the
\* user edited it or the settings were reloaded in between: nothing of the
\* failed patch is applied to what the form shows.
C5_RejectionLeavesFormAsSubmitted ==
    [][PatchCrmRejects =>
         /\ crmStageOptionsRaw' = crmStageOptionsRaw
         /\ crmCategorySuggestionsRaw' = crmCategorySuggestionsRaw
         /\ ~crmTouched =>
              /\ crmStageOptionsRaw' = crmPreSubmit.stage
              /\ crmCategorySuggestionsRaw' = crmPreSubmit.category
      ]_vars

\* a save of a text that parsing would change (a duplicate in another case,
\* an untrimmed line) was rejected, and the form still shows the text as typed
C5_Witness ==
    /\ crmOutcome = "rejected"
    /\ ~crmTouched
    /\ JoinLines(parseMultiLineValues(crmStageOptionsRaw, TRUE)) # crmStageOptionsRaw

\* C19: every key in the body of a CRM settings PATCH has a value that
\* differs from the loaded settings' value for that key.
C19_PatchBodyOnlyChangedKeys ==
    (crmCall.at = "patch" /\ crmSettings.loaded) =>
        \A key \in DOMAIN crmCall.body : crmCall.body[key] # crmSettings[key]

--------------------------------------------------------------------------
(* The Formik forms: CreateContactModal, CreateOrganizationModal,          *)
(* LogInteractionModal and the edit panels of the two detail pages.        *)
(* A field value is the sequence of its characters.                        *)

CreateFormKinds == {"createContact", "createOrganization", "logInteraction"}
EditFormKinds == {"editContact", "editOrganization"}
FormKinds == CreateFormKinds \cup EditFormKinds

\* the crmService function the form's onSubmit awaits
ServiceCall(kind) ==
    CASE kind = "createContact" -> "createCrmContact"
      [] kind = "createOrganization" -> "createCrmOrganization"
      [] kind = "logInteraction" -> "createCrmInteraction"
      [] kind = "editContact" -> "patchCrmContact"
      [] kind = "editOrganization" -> "patchCrmOrganization"

\* the argument of setStatus in the catch branch
FailureStatus(kind) ==
    CASE kind = "createContact" -> "Failed to create contact."
      [] kind = "createOrganization" -> "Failed to create organization."
      [] kind = "logInteraction" -> "Failed to log interaction."
      [] kind = "editContact" -> "Failed to save contact."
      [] kind = "editOrganization" -> "Failed to save organization."

\* only the contact schemas validate an email
HasEmailField(kind) == kind \in {"createContact", "editContact"}

\* initialValues: empty in the create modals, the loaded record in the edit panels
InitialValues(kind) ==
    [name |-> IF kind \in EditFormKinds THEN <<"a">> ELSE <<>>, email |-> <<>>,
     notes |-> <<>>]

\* what a user types into the required field and into the email field
RequiredTexts == {<<>>, <<" ">>, <<"a">>, <<" ", "a">>}
EmailTexts == {<<>>, <<" ">>, <<"a", "@">>, <<"a", "@", "a", ".", "a">>,
               <<" ", "a", "@", "a">>}

\* what a user types into the notes field (optional, not validated)
NotesTexts == {<<>>, <<" ">>, <<" ", "a", " ">>}

\* Formik prepareDataForValidation: an empty string is validated as undefined
PrepareDataForValidation(value) == [defined |-> value # <<>>, text |-> value]

\* Yup.string().trim().required(...)
YupTrimRequired(field) == field.defined /\ Trim(field.text) # <<>>

\* one or more dot-separated labels of letters (the domain of an address)
IsDomain(text) ==
    /\ text # <<>>
    /\ \A i \in 1 .. Len(text) : text[i] \in {"a", "."}
    /\ text[1] # "." /\ text[Len(text)] # "."
    /\ \A i \in 1 .. Len(text) - 1 : ~(text[i] = "." /\ text[i + 1] = ".")

\* the address pattern of Yup's email(): local@domain
IsEmail(text) ==
    \E i \in 1 .. Len(text) :
        /\ text[i] = "@"
        /\ i > 1
        /\ \A j \in 1 .. i - 1 : text[j] \in {"a", "."}
        /\ IsDomain(SubSeq(text, i + 1, Len(text)))

\* Yup.string().trim().email(...).optional(): the empty string is not tested
YupTrimEmailOptional(field) ==
    \/ ~field.defined
    \/ Trim(field.text) = <<>>
    \/ IsEmail(Trim(field.text))

\* the fields that fail the form's validationSchema
SchemaErrors(kind, values) ==
    {f \in {"name"} : ~YupTrimRequired(PrepareDataForValidation(values.name))}
    \cup {f \in {"email"} : HasEmailField(kind)
                            /\ ~YupTrimEmailOptional(PrepareDataForValidation(values.email))}

\* variant: an optional field that is always sent, trimmed
optionalTextAlways(value) == [defined |-> TRUE, text |-> Trim(value)]

\* optionalText(value)
optionalText(value) ==
    LET trimmed == Trim(value)
    IN IF Len(trimmed) > 0 THEN [defined |-> TRUE, text |-> trimmed]
       ELSE [defined |-> FALSE, text |-> <<>>]

\* the object literal onSubmit passes to the service function
SubmitPayload(values) ==
    [name |-> [defined |-> TRUE, text |-> Trim(values.name)],
     email |-> optionalText(values.email),
     notes |-> optionalText(values.notes)]

\* JSON.stringify(body) in postJson: a key whose value is undefined is left out
JsonStringify(payload) ==
    [key \in {k \in DOMAIN payload : payload[k].defined} |-> payload[key].text]

\* variant: a submit that runs onSubmit without validating
SubmitUnvalidated(kind, values) == TRUE

\* Formik submitForm: onSubmit runs only when validation found no error
SubmitAllowed(kind, values) == SchemaErrors(kind, values) = {}

\* variant: a handler that also closes the modal when the call failed
OnRejectedClosing(kind) == <<"setStatus", "close">>

\* the catch branch of onSubmit
OnRejected(kind) == <<"setStatus">>

\* the try branch of onSubmit after the awaited call
OnResolved(kind) ==
    IF kind \in CreateFormKinds THEN <<"onSuccess", "close">> ELSE <<"refresh", "close">>

InitForm ==
    /\ MoreIdle
    /\ ToolIdle
    /\ HookIdle
    /\ ServiceIdle
    /\ TagsIdle
    /\ StageIdle
    /\ PagingIdle
    /\ DetailIdle
    /\ ListIdle
    /\ SettingsIdle
    /\ CrmIdle
    /\ TransportIdle
    /\ QueryIdle
    /\ formKind \in FormKinds
    /\ formOpen = FALSE
    /\ formInstance = 0
    /\ formValues = InitialValues(formKind)
    /\ formStatus = ""
    /\ formErrors = {}
    /\ isSubmitting = FALSE
    /\ formCalls = {}
    /\ issued = 0
    /\ onSuccessCount = 0
    /\ lastCallbacks = <<>>

\* the modal is opened / "Edit" is clicked: a new <Formik> mounts
OpenForm ==
    /\ ~formOpen
    /\ formInstance < MaxOpen
    /\ formOpen' = TRUE
    /\ formInstance' = formInstance + 1
    /\ formValues' = InitialValues(formKind)
    /\ formStatus' = ""
    /\ formErrors' = {}
    /\ isSubmitting' = FALSE
    /\ UNCHANGED <<formKind, formCalls, issued, onSuccessCount, lastCallbacks>>
    /\ UNCHANGED notFormVars

\* Cancel / the header's close button: onOpenChange(false); the <Formik> unmounts
CancelForm ==
    /\ formOpen
    /\ formOpen' = FALSE
    /\ formValues' = InitialValues(formKind)
    /\ formStatus' = ""
    /\ formErrors' = {}
    /\ isSubmitting' = FALSE
    /\ UNCHANGED <<formKind, formInstance, formCalls, issued, onSuccessCount, lastCallbacks>>
    /\ UNCHANGED notFormVars

\* typing into a field
SetFieldValue(field, text) ==
    /\ formOpen
    /\ field = "email" => HasEmailField(formKind)
    /\ formValues[field] # text
    /\ formValues' = [formValues EXCEPT ![field] = text]
    /\ UNCHANGED <<formKind, formOpen, formInstance, formStatus, formErrors, isSubmitting,
                   formCalls, issued, onSuccessCount, lastCallbacks>>
    /\ UNCHANGED notFormVars

\* the submit button (disabled while isSubmitting): Formik validates, then
\* runs onSubmit up to its awaited service call
HandleSubmit ==
    /\ formOpen
    /\ ~isSubmitting
    /\ formErrors' = SchemaErrors(formKind, formValues)
    /\ IF SubmitAllowed(formKind, formValues)
       THEN /\ issued < MaxSubmit
            /\ issued' = issued + 1
            /\ isSubmitting' = TRUE
            /\ formCalls' = formCalls \cup
                   {[id |-> issued + 1, fn |-> ServiceCall(formKind), kind |-> formKind,
                     instance |-> formInstance, values |-> formValues,
                     payload |-> SubmitPayload(formValues),
                     body |-> JsonStringify(SubmitPayload(formValues))]}
       ELSE /\ formErrors' # formErrors
            /\ UNCHANGED <<issued, isSubmitting, formCalls>>
    /\ UNCHANGED <<formKind, formOpen, formInstance, formValues, formStatus,
                   onSuccessCount, lastCallbacks>>
    /\ UNCHANGED notFormVars

\* the rest of onSubmit once the awaited call settled, running `callbacks`
Settle(c, callbacks) ==
    LET Ran(cb) == \E i \in 1 .. Len(callbacks) : callbacks[i] = cb
        mounted == formOpen /\ c.instance = formInstance
    IN /\ formCalls' = formCalls \ {c}
       /\ lastCallbacks' = callbacks
       /\ onSuccessCount' = onSuccessCount + (IF Ran("onSuccess") THEN 1 ELSE 0)
       /\ IF Ran("close")
          THEN /\ formOpen' = FALSE
               /\ formValues' = InitialValues(formKind)
               /\ formStatus' = ""
               /\ formErrors' = {}
               /\ isSubmitting' = FALSE
          ELSE /\ formStatus' = IF mounted /\ Ran("setStatus")
                                THEN FailureStatus(c.kind) ELSE formStatus
               /\ isSubmitting' = IF mounted THEN FALSE ELSE isSubmitting
               /\ UNCHANGED <<formOpen, formValues, formErrors>>
       /\ UNCHANGED <<formKind, formInstance, issued>>
       /\ UNCHANGED notFormVars

CallResolves(c) == c \in formCalls /\ Settle(c, OnResolved(c.kind))

CallRejects(c) == c \in formCalls /\ Settle(c, OnRejected(c.kind))

NextForm ==
    \/ OpenForm
    \/ CancelForm
    \/ \E text \in RequiredTexts : SetFieldValue("name", text)
    \/ \E text \in EmailTexts : SetFieldValue("email", text)
    \/ \E text \in NotesTexts : SetFieldValue("notes", text)
    \/ HandleSubmit
    \/ \E c \in formCalls : CallResolves(c)
    \/ \E c \in formCalls : CallRejects(c)

SpecForm == InitForm /\ [][NextForm]_vars

\* C6: in the three create/log modals, when the awaited service call
\* resolves, onSuccess runs exactly once and then the modal is closed; when it
\* rejects, onSuccess does not run, the modal stays as open as it was, the
\* field values are unchanged, and the status of the form that submitted (if
\* it is still the mounted one) becomes that modal's failure message.
C6_SubmitOutcome ==
    [][\A c \in formCalls :
          c.kind \in CreateFormKinds =>
            /\ CallResolves(c) =>
                 /\ lastCallbacks' = <<"onSuccess", "close">>
                 /\ onSuccessCount' = onSuccessCount + 1
                 /\ ~formOpen'
            /\ CallRejects(c) =>
                 /\ onSuccessCount' = onSuccessCount
                 /\ formOpen' = formOpen
                 /\ formValues' = formValues
                 /\ (formOpen /\ c.instance = formInstance) =>
                        formStatus' = FailureStatus(c.kind)
      ]_vars

\* one submission resolved (onSuccess ran once, the modal closed); the modal
\* was reopened, filled in and submitted again, and that call was rejected:
\* the modal is open with its failure message and the typed values
C6_Witness ==
    /\ formKind \in CreateFormKinds
    /\ onSuccessCount = 1
    /\ lastCallbacks = <<"setStatus">>
    /\ formOpen
    /\ formStatus = FailureStatus(formKind)
    /\ formValues.name = <<" ", "a">>
    /\ formCalls = {}

\* C7: every service call a form issues carries values that pass the form's
\* schema: the required name/title is non-empty after trimming and, in the
\* contact forms, the email is empty after trimming or a valid address.
C7_NoCallWithInvalidValues ==
    \A c \in formCalls :
        /\ Trim(c.values.name) # <<>>
        /\ HasEmailField(c.kind) =>
               (Trim(c.values.email) = <<>> \/ IsEmail(Trim(c.values.email)))

\* a submit of a form whose email is malformed was attempted: errors are
\* shown and no call was issued
C7_Witness ==
    /\ formOpen
    /\ "email" \in formErrors
    /\ formValues.email = <<"a", "@">>
    /\ Trim(formValues.name) # <<>>
    /\ issued = 0
    /\ formCalls = {}

OptionalFields == {"email", "notes"}

\* C27: the body of every PATCH an edit form sends has the required name
\* trimmed, has no key for an optional text field whose input is empty after
\* trimming (so neither null nor the empty string is sent for it), and has
\* every other optional text field trimmed.
C27_OptionalFieldsOmittedOrTrimmed ==
    \A c \in formCalls :
        c.kind \in EditFormKinds =>
            /\ "name" \in DOMAIN c.body
            /\ c.body["name"] = Trim(c.values.name)
            /\ \A f \in OptionalFields :
                   IF Trim(c.values[f]) = <<>>
                   THEN f \notin DOMAIN c.body
                   ELSE f \in DOMAIN c.body /\ c.body[f] = Trim(c.values[f])
            /\ \A f \in DOMAIN c.body : c.body[f] # <<>>

\* an edit form was submitted with blank notes, an untrimmed name and, in the
\* contact form, an address: the PATCH is in flight
C27_Witness ==
    \E c \in formCalls :
        /\ c.kind \in EditFormKinds
        /\ c.values.notes = <<" ">>
        /\ c.values.name = <<" ", "a">>
        /\ c.kind = "editContact" => c.values.email # <<>>

--------------------------------------------------------------------------
(* Contact detail page: useCrmContact(contactId) and                       *)
(* useCrmOrganization(contact?.organization_id ?? null).                   *)

\* JavaScript null as an id argument
NullId == "null"
ContactIds == {"c1"}
OrgIds == {"o1", "o2"}

\* variant: a hook that builds a key from any id
IdGivesKeyAlways(id) == TRUE

\* `id ? [...] : null`: null and "" give the null key
IdGivesKey(id) == id # NullId /\ id # ""

\* the useSWR keys of the two entity hooks
ContactKey(contactId) == IF IdGivesKey(contactId) THEN <<"crm-contact", contactId>> ELSE NoKey
OrganizationKey(organizationId) ==
    IF IdGivesKey(organizationId) THEN <<"crm-organization", organizationId>> ELSE NoKey
DetailKeys ==
    {<<"crm-contact", id>> : id \in ContactIds \cup {NullId}}
    \cup {<<"crm-organization", id>> : id \in OrgIds \cup {NullId}}

NoContact == [loaded |-> FALSE]

\* `contact: data ?? null` of useCrmContact
HookContact == IF ContactKey(dContactId) = NoKey THEN NoContact ELSE dContact

\* `contact?.organization_id ?? null`
LinkedOrganizationId(contact) == IF contact.loaded THEN contact.organization_id ELSE NullId

\* `organization: data ?? null` of useCrmOrganization(linkedOrganizationId)
HookOrganization ==
    LET id == LinkedOrganizationId(HookContact)
    IN IF OrganizationKey(id) # NoKey /\ id \in dOrgLoaded
       THEN [loaded |-> TRUE, id |-> id] ELSE [loaded |-> FALSE]

DetailState == [FETCH |-> dFETCH, inflight |-> dInflight, nextId |-> dNextId, calls |-> dCalls]

\* the hook's revalidate for a key: the fetcher calls fn(id) unless deduped;
\* useSWR with a null key never revalidates
DetailRevalidate(S, key, fn, id, dedupe) ==
    IF key = NoKey \/ (dedupe /\ S.FETCH[key] # 0) THEN S
    ELSE [S EXCEPT !.FETCH[key] = S.nextId,
                   !.inflight = S.inflight \cup
                       {[id |-> S.nextId, key |-> key, fn |-> fn, arg |-> id]},
                   !.nextId = S.nextId + 1,
                   !.calls[fn] = S.calls[fn] + 1]

DetailInstall(S) ==
    /\ S.nextId <= MaxDetailReq + 1
    /\ dFETCH' = S.FETCH
    /\ dInflight' = S.inflight
    /\ dNextId' = S.nextId
    /\ dCalls' = S.calls

\* after the first render and the mount effects of the two hooks; an
\* organization may be cached from an earlier page
InitDetail ==
    /\ MoreIdle
    /\ ToolIdle
    /\ HookIdle
    /\ ServiceIdle
    /\ TagsIdle
    /\ StageIdle
    /\ PagingIdle
    /\ ListIdle
    /\ SettingsIdle
    /\ CrmIdle
    /\ FormIdle
    /\ TransportIdle
    /\ QueryIdle
    /\ dContactId \in ContactIds \cup {NullId}
    /\ dServerOrgId \in OrgIds \cup {NullId}
    /\ dContact = NoContact
    /\ dOrgLoaded \in SUBSET {"o1"}
    /\ dEverLinked = FALSE
    /\ LET S0 == [FETCH |-> [k \in DetailKeys |-> 0], inflight |-> {}, nextId |-> 1,
                  calls |-> [fn \in {"getCrmContact", "getCrmOrganization"} |-> 0]]
           S1 == DetailRevalidate(S0, ContactKey(dContactId), "getCrmContact", dContactId, TRUE)
           S2 == DetailRevalidate(S1, OrganizationKey(NullId), "getCrmOrganization", NullId,
                                  TRUE)
       IN /\ dFETCH = S2.FETCH
          /\ dInflight = S2.inflight
          /\ dNextId = S2.nextId
          /\ dCalls = S2.calls

\* a request resolves.  A contact response re-renders the page; when
\* linkedOrganizationId changed, useCrmOrganization's key changed and its
\* effect revalidates the new key.
DetailFetchResolves(r) ==
    /\ r \in dInflight
    /\ LET current == dFETCH[r.key] = r.id
           newContact == IF current /\ r.fn = "getCrmContact"
                         THEN [loaded |-> TRUE, organization_id |-> dServerOrgId]
                         ELSE dContact
           linked == LinkedOrganizationId(newContact)
           S1 == [DetailState EXCEPT !.inflight = dInflight \ {r}]
           S2 == IF linked # LinkedOrganizationId(dContact)
                 THEN DetailRevalidate(S1, OrganizationKey(linked), "getCrmOrganization",
                                       linked, TRUE)
                 ELSE S1
       IN /\ dContact' = newContact
          /\ dOrgLoaded' = IF current /\ r.fn = "getCrmOrganization"
                           THEN dOrgLoaded \cup {r.arg} ELSE dOrgLoaded
          /\ dEverLinked' = (dEverLinked \/ OrganizationKey(linked) # NoKey)
          /\ DetailInstall(S2)
    /\ UNCHANGED <<dContactId, dServerOrgId>>
    /\ UNCHANGED notDetailVars

\* a request rejects: the entry keeps its data, FETCH[key] is cleaned up
DetailFetchRejects(r) ==
    /\ r \in dInflight
    /\ dInflight' = dInflight \ {r}
    /\ dFETCH' = IF dFETCH[r.key] = r.id THEN [dFETCH EXCEPT ![r.key] = 0] ELSE dFETCH
    /\ UNCHANGED <<dContactId, dContact, dOrgLoaded, dNextId, dServerOrgId, dEverLinked,
                   dCalls>>
    /\ UNCHANGED notDetailVars

\* the dedupe timer of a resolved request fires
DetailCleanup(key) ==
    /\ dFETCH[key] # 0
    /\ \A r \in dInflight : r.id # dFETCH[key]
    /\ dFETCH' = [dFETCH EXCEPT ![key] = 0]
    /\ UNCHANGED <<dContactId, dContact, dOrgLoaded, dInflight, dNextId, dServerOrgId,
                   dEverLinked, dCalls>>
    /\ UNCHANGED notDetailVars

\* refreshContact(): the bound mutate of a null key does nothing
RefreshContact ==
    /\ DetailInstall(DetailRevalidate(DetailState, ContactKey(dContactId), "getCrmContact",
                                      dContactId, FALSE))
    /\ dNextId' # dNextId
    /\ UNCHANGED <<dContactId, dContact, dOrgLoaded, dServerOrgId, dEverLinked>>
    /\ UNCHANGED notDetailVars

\* the contact's organization changes on the backend (a saved edit)
ContactRelinked(organizationId) ==
    /\ organizationId # dServerOrgId
    /\ dServerOrgId' = organizationId
    /\ UNCHANGED <<dContactId, dContact, dOrgLoaded, dFETCH, dInflight, dNextId,
                   dEverLinked, dCalls>>
    /\ UNCHANGED notDetailVars

NextDetail ==
    \/ \E r \in dInflight : DetailFetchResolves(r)
    \/ \E r \in dInflight : DetailFetchRejects(r)
    \/ \E key \in DetailKeys : DetailCleanup(key)
    \/ RefreshContact
    \/ \E organizationId \in OrgIds \cup {NullId} : ContactRelinked(organizationId)

SpecDetail == InitDetail /\ [][NextDetail]_vars

\* C12: while the id given to useCrmContact / useCrmOrganization has been null
\* since mount, the service function has not been called and the hook returns
\* a null entity; so the detail page calls getCrmOrganization only after the
\* contact loaded with a non-null organization_id, and never with a null id.
C12_NoRequestForNullId ==
    /\ dContactId = NullId =>
          (dCalls["getCrmContact"] = 0 /\ ~HookContact.loaded)
    /\ ~dEverLinked =>
          (dCalls["getCrmOrganization"] = 0 /\ ~HookOrganization.loaded)
    /\ \A r \in dInflight : r.arg # NullId

\* the contact loaded twice (mount and a refresh) with organization_id null,
\* an organization is cached from earlier, and no organization was requested
C12_Witness ==
    /\ dContact.loaded
    /\ dContact.organization_id = NullId
    /\ ~dEverLinked
    /\ dCalls["getCrmContact"] = 2
    /\ dInflight = {}
    /\ dOrgLoaded = {"o1"}
    /\ dCalls["getCrmOrganization"] = 0

--------------------------------------------------------------------------
(* crmService transport helpers.  Texts (action names, bodies, messages)    *)
(* are sequences of characters.                                            *)

FetchCrmSettings == <<"F", "e", "t", "c", "h", " ", "C", "R", "M", " ", "s", "e", "t", "t",
    "i", "n", "g", "s">>
PatchCrmSettings == <<"P", "a", "t", "c", "h", " ", "C", "R", "M", " ", "s", "e", "t", "t",
    "i", "n", "g", "s">>
CreateCrmContact == <<"C", "r", "e", "a", "t", "e", " ", "C", "R", "M", " ", "c", "o", "n",
    "t", "a", "c", "t">>
UnassignCrmTag == <<"U", "n", "a", "s", "s", "i", "g", "n", " ", "C", "R", "M", " ", "t",
    "a", "g", " ", "f", "r", "o", "m", " ", "c", "o", "n", "t", "a", "c", "t">>

\* HTTP statuses the backend or a proxy in front of it answers with
Statuses == {200, 201, 299, 300, 404, 500}

\* Response.ok
ResponseOk(status) == status >= 200 /\ status <= 299

\* bodies: the JSON texts the API answers a successful call with, and what an
\* error response may carry (a JSON detail, an HTML page, nothing)
JsonTexts == {<<"[", "]">>, <<"{", "}">>, <<"n", "u", "l", "l">>, <<"7">>}
ErrorTexts == JsonTexts \cup {<<>>, <<"<", "h", "t", "m", "l", ">">>}

Arr(items) == [t |-> "arr", items |-> items]
Obj == [t |-> "obj"]

\* Response.json(): the value of a JSON text
JsonParse(text) ==
    CASE text = <<"[", "]">> -> Arr(<<>>)
      [] text = <<"{", "}">> -> Obj
      [] text = <<"n", "u", "l", "l">> -> Null
      [] text # <<>> /\ (\A i \in 1 .. Len(text) : text[i] \in {"0", "1", "2", "3", "4",
                            "5", "6", "7", "8", "9"}) -> Num(DigitsValue(text))
      [] OTHER -> [t |-> "SyntaxError"]

\* variant: an error message without the status code
ErrorMessageNoStatus(action, status) == action \o <<" ", "f", "a", "i", "l", "e", "d">>

\* handleRequestError: `${action} failed (Status: ${response.status})`
ErrorMessage(action, status) ==
    action \o <<" ", "f", "a", "i", "l", "e", "d", " ", "(", "S", "t", "a", "t", "u", "s",
        ":", " ">> \o NumToString(status) \o <<")">>

\* the body of getJson / postJson after `await fetch(...)`
SettleWith(call, response) ==
    IF ~ResponseOk(response.status)
    THEN [kind |-> "rejected", message |-> ErrorMessage(call.action, response.status),
          parsed |-> FALSE]
    ELSE LET value == JsonParse(response.body)
         IN IF value = [t |-> "SyntaxError"]
            THEN [kind |-> "rejected", message |-> <<"S", "y", "n", "t", "a", "x", "E",
                "r", "r", "o", "r">>, parsed |-> TRUE]
            ELSE [kind |-> "resolved", value |-> value, parsed |-> TRUE]

InitTransport ==
    /\ MoreIdle
    /\ ToolIdle
    /\ HookIdle
    /\ ServiceIdle
    /\ TagsIdle
    /\ StageIdle
    /\ PagingIdle
    /\ DetailIdle
    /\ ListIdle
    /\ SettingsIdle
    /\ CrmIdle
    /\ FormIdle
    /\ QueryIdle
    /\ TransportIdle

Fetching == txCall # NoRequest /\ txOutcome = NoOutcome

\* getJson(path, action): fetch(path)
GetJson(path, action) ==
    /\ ~Fetching
    /\ txCall' = [fn |-> "getJson", path |-> path, action |-> action, method |-> "GET",
                  body |-> "none"]
    /\ txResponse' = NoResponse
    /\ txOutcome' = NoOutcome
    /\ UNCHANGED notTransportVars

\* postJson(path, body, action, method): fetch(path, {method, headers, body})
PostJsonAs(fn, path, body, action, method) ==
    /\ ~Fetching
    /\ txCall' = [fn |-> fn, path |-> path, action |-> action, method |-> method,
                  body |-> body]
    /\ txResponse' = NoResponse
    /\ txOutcome' = NoOutcome
    /\ UNCHANGED notTransportVars

PostJson(path, body, action, method) == PostJsonAs("postJson", path, body, action, method)

\* deleteJson(path, action): postJson(path, {}, action, "DELETE")
DeleteJson(path, action) == PostJsonAs("deleteJson", path, "{}", action, "DELETE")

\* fetch resolves with a Response and the helper runs to its end
FetchResponds(status, body) ==
    /\ Fetching
    /\ ResponseOk(status) => body \in JsonTexts
    /\ txResponse' = [status |-> status, body |-> body]
    /\ txOutcome' = SettleWith(txCall, txResponse')
    /\ UNCHANGED txCall
    /\ UNCHANGED notTransportVars

NextTransport ==
    \/ GetJson("/api/user/crm/settings", FetchCrmSettings)
    \/ PostJson("/api/user/crm/contacts", "{first_name}", CreateCrmContact, "POST")
    \/ PostJson("/api/user/crm/settings", "{contact_stage_options}", PatchCrmSettings, "PATCH")
    \/ DeleteJson("/api/user/crm/contacts/c1/tags/t1", UnassignCrmTag)
    \/ \E status \in Statuses, body \in ErrorTexts : FetchResponds(status, body)

SpecTransport == InitTransport /\ [][NextTransport]_vars

--------------------------------------------------------------------------
(* withQueryParams.  A parameter mapping is the sequence of its entries in  *)
(* Object.entries order; values are tagged by their JavaScript type.       *)

UndefinedValue == [t |-> "undefined"]
Str(text) == [t |-> "str", s |-> text]

KeyQ == <<"q">>
KeyTagIds == <<"t", "a", "g", "_", "i", "d", "s">>
KeyPageNum == <<"p", "a", "g", "e", "_", "n", "u", "m">>

\* String(value)
StringOf(value) ==
    CASE value.t = "str" -> value.s
      [] value.t = "num" -> NumToString(value.n)
      [] value.t = "bool" -> IF value.b THEN <<"t", "r", "u", "e">> ELSE <<"f", "a", "l", "s", "e">>
      [] value.t = "null" -> <<"n", "u", "l", "l">>
      [] value.t = "undefined" -> <<"u", "n", "d", "e", "f", "i", "n", "e", "d">>

\* `value === undefined || value === null || value === ""`
IsOmitted(value) == value = UndefinedValue \/ value = Null \/ value = Str(<<>>)

\* variant: every element of an array is appended
KeepsEveryItem(item) == TRUE

\* `item !== undefined && item !== null && item !== ""`
KeepsItem(item) == ~IsOmitted(item)

\* value.forEach((item) => ...) of an array value
RECURSIVE AppendItems(_, _, _)
AppendItems(search, key, items) ==
    IF items = <<>> THEN search
    ELSE AppendItems(IF KeepsItem(Head(items))
                     THEN Append(search, <<key, StringOf(Head(items))>>)
                     ELSE search,
                     key, Tail(items))

\* Object.entries(params).forEach(([key, value]) => ...)
RECURSIVE AppendParams(_, _)
AppendParams(search, params) ==
    IF params = <<>> THEN search
    ELSE LET key == Head(params)[1]
             value == Head(params)[2]
         IN AppendParams(IF IsOmitted(value) THEN search
                         ELSE IF value.t = "arr" THEN AppendItems(search, key, value.items)
                         ELSE Append(search, <<key, StringOf(value)>>),
                         Tail(params))

\* application/x-www-form-urlencoded byte serialisation of one character
FormEncodeChar(c) ==
    CASE c = " " -> <<"+">>
      [] c = "&" -> <<"%", "2", "6">>
      [] c = "=" -> <<"%", "3", "D">>
      [] OTHER -> <<c>>

RECURSIVE FormEncode(_)
FormEncode(text) ==
    IF text = <<>> THEN <<>> ELSE FormEncodeChar(Head(text)) \o FormEncode(Tail(text))

\* URLSearchParams.prototype.toString()
RECURSIVE SearchToString(_)
SearchToString(search) ==
    IF search = <<>> THEN <<>>
    ELSE FormEncode(Head(search)[1]) \o <<"=">> \o FormEncode(Head(search)[2])
         \o (IF Tail(search) = <<>> THEN <<>> ELSE <<"&">> \o SearchToString(Tail(search)))

withQueryParams(basePath, params) ==
    LET queryString == SearchToString(AppendParams(<<>>, params))
    IN IF queryString # <<>> THEN basePath \o <<"?">> \o queryString ELSE basePath

\* arguments: scalar values for q and page_num, array values for tag_ids
ScalarValues == {UndefinedValue, Null, Str(<<>>), Str(<<"a", " ", "b">>), Num(0), Num(25),
                 Bool(FALSE)}
ItemValues == {Str(<<"a">>), Str(<<"b">>), Str(<<>>), Null}
ArrayValues == {Arr(items) : items \in UNION {[1 .. n -> ItemValues] : n \in 0 .. MaxItems}}
BasePaths == {<<"/", "x">>, <<"/", "a", "p", "i", "/", "u", "s", "e", "r", "/", "c", "r",
    "m", "/", "c", "o", "n", "t", "a", "c", "t", "s">>}
ParamMappings ==
    {<< <<KeyQ, q>>, <<KeyTagIds, tags>>, <<KeyPageNum, page>> >> :
        q \in ScalarValues, tags \in ArrayValues \cup {UndefinedValue}, page \in ScalarValues}
    \cup {<< <<KeyPageNum, page>>, <<KeyTagIds, tags>>, <<KeyQ, q>> >> :
        q \in ScalarValues, tags \in ArrayValues, page \in {Num(0)}}

InitQuery ==
    /\ MoreIdle
    /\ ToolIdle
    /\ HookIdle
    /\ ServiceIdle
    /\ TagsIdle
    /\ StageIdle
    /\ PagingIdle
    /\ DetailIdle
    /\ ListIdle
    /\ SettingsIdle
    /\ CrmIdle
    /\ FormIdle
    /\ TransportIdle
    /\ qBasePath \in BasePaths
    /\ qParams \in ParamMappings
    /\ qEntries = <<>>
    /\ qPath = <<>>

\* the call withQueryParams(qBasePath, qParams)
CallWithQueryParams ==
    /\ qPath = <<>>
    /\ qEntries' = AppendParams(<<>>, qParams)
    /\ qPath' = withQueryParams(qBasePath, qParams)
    /\ UNCHANGED <<qBasePath, qParams>>
    /\ UNCHANGED notQueryVars

NextQuery == CallWithQueryParams

SpecQuery == InitQuery /\ [][NextQuery]_vars

\* the entries the statement describes for one key; everyElement tells whether
\* each array element counts, or only those that are not undefined, null or ""
EntriesOfKey(key, value, everyElement) ==
    IF IsOmitted(value) THEN <<>>
    ELSE IF value.t = "arr"
         THEN LET kept == SelectSeq(value.items, LAMBDA item : everyElement \/ ~IsOmitted(item))
              IN [j \in 1 .. Len(kept) |-> <<key, StringOf(kept[j])>>]
         ELSE << <<key, StringOf(value)>> >>

RECURSIVE EntriesOfKeys(_, _)
EntriesOfKeys(params, everyElement) ==
    IF params = <<>> THEN <<>>
    ELSE EntriesOfKey(Head(params)[1], Head(params)[2], everyElement)
         \o EntriesOfKeys(Tail(params), everyElement)

ExampleParams ==
    << <<KeyQ, Str(<<>>)>>, <<KeyTagIds, Arr(<<Str(<<"a">>), Str(<<"b">>)>>)>>,
       <<KeyPageNum, Num(0)>> >>
ExamplePath == <<"/", "x", "?", "t", "a", "g", "_", "i", "d", "s", "=", "a", "&", "t", "a",
    "g", "_", "i", "d", "s", "=", "b", "&", "p", "a", "g", "e", "_", "n", "u", "m", "=",
    "0">>

ExampleHolds ==
    (qPath # <<>> /\ qBasePath = <<"/", "x">> /\ qParams = ExampleParams) => qPath = ExamplePath

\* C10 as stated: keys whose value is undefined, null or "" are omitted, an
\* array value gives one `key=item` entry for each of its elements in order,
\* any other value (0 included) gives one entry with its string form, keys in
\* mapping order; the example call returns "/x?tag_ids=a&tag_ids=b&page_num=0".
C10_OneEntryPerElement ==
    /\ qPath # <<>> => qEntries = EntriesOfKeys(qParams, TRUE)
    /\ ExampleHolds

\* C10 amended: as above, but an array value gives one entry for each of its
\* elements that is not undefined, null or ""; the returned string is the base
\* path alone when there is no entry, else the base path, "?" and the entries
\* as form-urlencoded `key=value` joined by "&".
C10_OneEntryPerNonEmptyElement ==
    /\ qPath # <<>> =>
          /\ qEntries = EntriesOfKeys(qParams, FALSE)
          /\ qPath = IF qEntries = <<>> THEN qBasePath
                     ELSE qBasePath \o <<"?">> \o SearchToString(qEntries)
    /\ ExampleHolds

\* the example call of the statement has been made, with its stated result
C10_ExampleWitness ==
    /\ qBasePath = <<"/", "x">>
    /\ qParams = ExampleParams
    /\ qPath = ExamplePath

--------------------------------------------------------------------------
(* TagManager.  A tag is [id, name]; names and the search text are          *)
(* sequences of characters.                                                *)

\* what a user types into the search box
SearchTexts == {<<>>, <<" ">>, <<"a">>, <<" ", "A">>, <<"b">>}

\* String.prototype.includes
Includes(text, part) ==
    \E i \in 0 .. Len(text) - Len(part) : SubSeq(text, i + 1, i + Len(part)) = part

SeqToSet(seq) == {seq[i] : i \in 1 .. Len(seq)}

\* currentTagIds = new Set(tags.map((tag) => tag.id))
CurrentTagIds == SeqToSet(tTags)

\* variant: every loaded tag that matches the search is offered
AvailableTagsUnfiltered ==
    {tag \in tAllTags : Includes(ToLowerCase(tag.name), ToLowerCase(tTagSearch))}

\* availableTags
AvailableTags ==
    {tag \in tAllTags : /\ tag.id \notin CurrentTagIds
                        /\ Includes(ToLowerCase(tag.name), ToLowerCase(tTagSearch))}

\* variant: any non-empty search text may be created
CanCreateAnyName == Len(Trim(tTagSearch)) > 0

\* canCreateNew
CanCreateNew ==
    /\ Len(Trim(tTagSearch)) > 0
    /\ ~\E tag \in tAllTags : ToLowerCase(tag.name) = ToLowerCase(Trim(tTagSearch))

\* a request record; n tells requests of the same kind apart
TagRequest(fn, arg) ==
    [n |-> tIssued + 1, fn |-> fn, arg |-> arg, served |-> FALSE, result |-> {}]

\* the backend's association of tags to the entity: attaching is idempotent
ServerAttach(attached, tagId) ==
    IF tagId \in SeqToSet(attached) THEN attached ELSE Append(attached, tagId)
ServerDetach(attached, tagId) == SelectSeq(attached, LAMBDA id : id # tagId)

InitTags ==
    /\ MoreIdle
    /\ ToolIdle
    /\ HookIdle
    /\ ServiceIdle
    /\ ListIdle
    /\ SettingsIdle
    /\ CrmIdle
    /\ FormIdle
    /\ TransportIdle
    /\ QueryIdle
    /\ DetailIdle
    /\ StageIdle
    /\ PagingIdle
    /\ tOpen = FALSE
    /\ tAllTags = {}
    /\ tTagSearch = <<>>
    /\ tIsCreating = FALSE
    /\ tServerTags = {[id |-> 1, name |-> <<"a">>]}
    /\ tServerAttached \in {<<>>, <<1>>}
    /\ tTags = tServerAttached
    /\ tCreate = NoFlow
    /\ tReqs = {}
    /\ tIssued = 0
    /\ tLastCreate = NoCallYet
    /\ tLastAttach = NoCallYet

\* Popover onOpenChange(true); useEffect([open]) calls listCrmTags
OpenPopover ==
    /\ ~tOpen
    /\ tIssued < MaxTagReq
    /\ tOpen' = TRUE
    /\ tReqs' = tReqs \cup {TagRequest("listCrmTags", 0)}
    /\ tIssued' = tIssued + 1
    /\ UNCHANGED <<tAllTags, tTagSearch, tIsCreating, tTags, tServerTags, tServerAttached,
                   tCreate, tLastCreate, tLastAttach>>
    /\ UNCHANGED notTagVars

\* "Done" / click outside: setOpen(false)
ClosePopover ==
    /\ tOpen
    /\ tOpen' = FALSE
    /\ UNCHANGED <<tAllTags, tTagSearch, tIsCreating, tTags, tServerTags, tServerAttached,
                   tCreate, tReqs, tIssued, tLastCreate, tLastAttach>>
    /\ UNCHANGED notTagVars

\* search box onChange
SetTagSearch(text) ==
    /\ tOpen
    /\ text # tTagSearch
    /\ tTagSearch' = text
    /\ UNCHANGED <<tOpen, tAllTags, tIsCreating, tTags, tServerTags, tServerAttached,
                   tCreate, tReqs, tIssued, tLastCreate, tLastAttach>>
    /\ UNCHANGED notTagVars

\* click on an offered tag: handleAddTag(tag.id) up to its await,
\* setOpen(false), setTagSearch("")
SelectTag(tag) ==
    /\ tOpen
    /\ tag \in AvailableTags
    /\ tIssued < MaxTagReq
    /\ tReqs' = tReqs \cup {TagRequest("addTag", tag.id)}
    /\ tIssued' = tIssued + 1
    /\ tLastAttach' = [made |-> TRUE, id |-> tag.id, origin |-> "select", tags |-> tTags]
    /\ tOpen' = FALSE
    /\ tTagSearch' = <<>>
    /\ UNCHANGED <<tAllTags, tIsCreating, tTags, tServerTags, tServerAttached, tCreate,
                   tLastCreate>>
    /\ UNCHANGED notTagVars

\* click on a shown tag's x: handleRemoveTag(tag.id) up to its await
HandleRemoveTag(tagId) ==
    /\ tagId \in CurrentTagIds
    /\ tIssued < MaxTagReq
    /\ tReqs' = tReqs \cup {TagRequest("removeTag", tagId)}
    /\ tIssued' = tIssued + 1
    /\ UNCHANGED <<tOpen, tAllTags, tTagSearch, tIsCreating, tTags, tServerTags,
                   tServerAttached, tCreate, tLastCreate, tLastAttach>>
    /\ UNCHANGED notTagVars

\* the backend answers a listCrmTags request with the tags it holds at that
\* moment; the response is delivered later
TagListServed(r) ==
    /\ r \in tReqs
    /\ r.fn = "listCrmTags"
    /\ ~r.served
    /\ tReqs' = (tReqs \ {r}) \cup {[r EXCEPT !.served = TRUE, !.result = tServerTags]}
    /\ UNCHANGED <<tOpen, tAllTags, tTagSearch, tIsCreating, tTags, tServerTags,
                   tServerAttached, tCreate, tIssued, tLastCreate, tLastAttach>>
    /\ UNCHANGED notTagVars

\* a request outside the create flow resolves
TagRequestResolves(r) ==
    /\ r \in tReqs
    /\ r.fn = "listCrmTags" => r.served
    /\ tAllTags' = IF r.fn = "listCrmTags" THEN r.result ELSE tAllTags
    /\ tServerAttached' =
           CASE r.fn = "addTag" -> ServerAttach(tServerAttached, r.arg)
             [] r.fn = "removeTag" -> ServerDetach(tServerAttached, r.arg)
             [] OTHER -> tServerAttached
    /\ tTags' = IF r.fn = "refresh" THEN tServerAttached ELSE tTags
    \* handleAddTag / handleRemoveTag: onRefresh() after the await
    /\ tReqs' = (tReqs \ {r}) \cup
                   (IF r.fn \in {"addTag", "removeTag"} THEN {[r EXCEPT !.fn = "refresh"]}
                    ELSE {})
    /\ UNCHANGED <<tOpen, tTagSearch, tIsCreating, tServerTags, tCreate, tIssued,
                   tLastCreate, tLastAttach>>
    /\ UNCHANGED notTagVars

\* a request outside the create flow rejects: `.catch(() => {})` / `catch {}`
TagRequestRejects(r) ==
    /\ r \in tReqs
    /\ tReqs' = tReqs \ {r}
    /\ UNCHANGED <<tOpen, tAllTags, tTagSearch, tIsCreating, tTags, tServerTags,
                   tServerAttached, tCreate, tIssued, tLastCreate, tLastAttach>>
    /\ UNCHANGED notTagVars

\* click on `Create "..."`: handleCreateAndAddTag up to `await createCrmTag`
HandleCreateAndAddTag ==
    /\ tOpen
    /\ CanCreateNew /\ ~tIsCreating
    /\ tIssued < MaxTagReq
    /\ Cardinality(tServerTags) < MaxTags
    /\ tIsCreating' = TRUE
    /\ tCreate' = [pc |-> "createCrmTag", name |-> Trim(tTagSearch)]
    /\ tLastCreate' = [made |-> TRUE, name |-> Trim(tTagSearch), allTags |-> tAllTags,
                       outcome |-> "running"]
    /\ tIssued' = tIssued + 1
    /\ UNCHANGED <<tOpen, tAllTags, tTagSearch, tTags, tServerTags, tServerAttached, tReqs,
                   tLastAttach>>
    /\ UNCHANGED notTagVars

\* createCrmTag resolves with the new tag; handleAddTag(newTag.id) is called
CreateTagResolves ==
    /\ tCreate.pc = "createCrmTag"
    /\ LET newTag == [id |-> Cardinality(tServerTags) + 1, name |-> tCreate.name]
       IN /\ tServerTags' = tServerTags \cup {newTag}
          /\ tCreate' = [pc |-> "addTag", name |-> tCreate.name, id |-> newTag.id]
          /\ tLastAttach' = [made |-> TRUE, id |-> newTag.id, origin |-> "create",
                             tags |-> tTags]
    /\ UNCHANGED <<tOpen, tAllTags, tTagSearch, tIsCreating, tTags, tServerAttached, tReqs,
                   tIssued, tLastCreate>>
    /\ UNCHANGED notTagVars

\* variant: a rejected createCrmTag falls through to handleAddTag
CreateTagRejectsThenAttaches ==
    /\ tCreate.pc = "createCrmTag"
    /\ tCreate' = [pc |-> "addTag", name |-> tCreate.name, id |-> 0]
    /\ tLastAttach' = [made |-> TRUE, id |-> 0, origin |-> "create", tags |-> tTags]
    /\ UNCHANGED <<tOpen, tAllTags, tTagSearch, tIsCreating, tTags, tServerTags,
                   tServerAttached, tReqs, tIssued, tLastCreate>>
    /\ UNCHANGED notTagVars

\* createCrmTag rejects: catch, finally setIsCreating(false)
CreateTagRejects ==
    /\ tCreate.pc = "createCrmTag"
    /\ tCreate' = NoFlow
    /\ tIsCreating' = FALSE
    /\ tLastCreate' = [tLastCreate EXCEPT !.outcome = "failed"]
    /\ UNCHANGED <<tOpen, tAllTags, tTagSearch, tTags, tServerTags, tServerAttached, tReqs,
                   tIssued, tLastAttach>>
    /\ UNCHANGED notTagVars

\* the flow's handleAddTag settles (it swallows a rejection; on success it
\* calls onRefresh()); then setTagSearch("") and `await listCrmTags`
CreateFlowAttachSettles(ok) ==
    /\ tCreate.pc = "addTag"
    /\ tServerAttached' = IF ok THEN ServerAttach(tServerAttached, tCreate.id)
                          ELSE tServerAttached
    /\ tReqs' = IF ok THEN tReqs \cup {[n |-> 0, fn |-> "refresh", arg |-> tCreate.id,
                                          served |-> FALSE, result |-> {}]}
                ELSE tReqs
    /\ tTagSearch' = <<>>
    /\ tCreate' = [tCreate EXCEPT !.pc = "listCrmTags"]
    /\ tLastCreate' = IF ok THEN tLastCreate ELSE [tLastCreate EXCEPT !.outcome = "failed"]
    /\ UNCHANGED <<tOpen, tAllTags, tIsCreating, tTags, tServerTags, tIssued, tLastAttach>>
    /\ UNCHANGED notTagVars

\* the flow's listCrmTags settles: setAllTags on success; finally
\* setIsCreating(false)
CreateFlowListSettles(ok) ==
    /\ tCreate.pc = "listCrmTags"
    /\ tAllTags' = IF ok THEN tServerTags ELSE tAllTags
    /\ tCreate' = NoFlow
    /\ tIsCreating' = FALSE
    /\ tLastCreate' = IF ok /\ tLastCreate.outcome = "running"
                       THEN [tLastCreate EXCEPT !.outcome = "completed"]
                       ELSE [tLastCreate EXCEPT !.outcome = "failed"]
    /\ UNCHANGED <<tOpen, tTagSearch, tTags, tServerTags, tServerAttached, tReqs, tIssued,
                   tLastAttach>>
    /\ UNCHANGED notTagVars

NextTags ==
    \/ OpenPopover
    \/ ClosePopover
    \/ \E text \in SearchTexts : SetTagSearch(text)
    \/ \E tag \in tAllTags : SelectTag(tag)
    \/ \E tagId \in 1 .. MaxTags : HandleRemoveTag(tagId)
    \/ \E r \in tReqs : TagListServed(r)
    \/ \E r \in tReqs : TagRequestResolves(r)
    \/ \E r \in tReqs : TagRequestRejects(r)
    \/ HandleCreateAndAddTag
    \/ CreateTagResolves
    \/ CreateTagRejects
    \/ \E ok \in BOOLEAN : CreateFlowAttachSettles(ok)
    \/ \E ok \in BOOLEAN : CreateFlowListSettles(ok)

SpecTags == InitTags /\ [][NextTags]_vars

\* C14: the name of every createCrmTag call is non-empty and trimmed, and no
\* tag of allTags at the time of the call has that name up to letter case.
C14_NoDuplicateOrEmptyName ==
    tLastCreate.made =>
        /\ tLastCreate.name # <<>>
        /\ tLastCreate.name = Trim(tLastCreate.name)
        /\ \A tag \in tLastCreate.allTags :
               ToLowerCase(tag.name) # ToLowerCase(tLastCreate.name)

\* a tag was created from the text " A" while the loaded list held no tag
\* named a: the list request of the popover had failed
C14_Witness ==
    /\ tLastCreate.made
    /\ tLastCreate.name = <<"A">>
    /\ tLastCreate.allTags = {}
    /\ tCreate.pc = "addTag"

NoDuplicates(seq) == \A i, j \in 1 .. Len(seq) : seq[i] = seq[j] => i = j

\* C15: a tag whose id is in the local tags list is never offered; an attach
\* request made by selecting from the list is never for a tag that was in the
\* local tags list at the time; no id occurs twice in the displayed tags.
C15_AttachedTagNotDuplicated ==
    /\ \A tag \in AvailableTags : tag.id \notin CurrentTagIds
    /\ (tLastAttach.made /\ tLastAttach.origin = "select") =>
           tLastAttach.id \notin SeqToSet(tLastAttach.tags)
    /\ NoDuplicates(tTags)

\* a tag was selected while not attached, the popover was opened again and
\* the list loaded, and onRefresh has delivered the tag: it is shown once and
\* no longer offered
C15_Witness ==
    /\ tLastAttach.made
    /\ tLastAttach.origin = "select"
    /\ tLastAttach.tags = <<>>
    /\ tTags = <<tLastAttach.id>>
    /\ tOpen
    /\ \E tag \in tAllTags : tag.id = tLastAttach.id
    /\ AvailableTags = {}

\* every request of the create flow settles
SpecTagsFair ==
    /\ SpecTags
    /\ WF_vars(CreateTagResolves \/ CreateTagRejects)
    /\ WF_vars(\E ok \in BOOLEAN : CreateFlowAttachSettles(ok))
    /\ WF_vars(\E ok \in BOOLEAN : CreateFlowListSettles(ok))

\* the flow's attach request starts in this step
CreateFlowAttachStarts == tCreate.pc # "addTag" /\ tCreate'.pc = "addTag"

\* createCrmTag resolves in this step: the backend stores the new tag
CreateTagResolved == tServerTags' # tServerTags

\* C16: the create flow's attach request starts in exactly the step in which
\* createCrmTag resolves and carries the id of the tag just created; when
\* createCrmTag rejects the flow ends with no attach request; and isCreating,
\* once true, becomes false again.
C16_AttachFollowsCreate ==
    /\ [][/\ CreateFlowAttachStarts <=> CreateTagResolved
          /\ CreateFlowAttachStarts =>
                 /\ tCreate.pc = "createCrmTag"
                 /\ tServerTags' \ tServerTags = {[id |-> tCreate'.id, name |-> tCreate.name]}
                 /\ tLastAttach' = [made |-> TRUE, id |-> tCreate'.id, origin |-> "create",
                                    tags |-> tTags]
          /\ (tCreate.pc = "createCrmTag" /\ tCreate' # tCreate /\ ~CreateTagResolved) =>
                 /\ tCreate' = NoFlow
                 /\ tLastAttach' = tLastAttach
                 /\ tReqs' = tReqs
          /\ (tLastAttach' # tLastAttach /\ tLastAttach'.origin = "create") =>
                 CreateTagResolved]_vars
    /\ (tIsCreating ~> ~tIsCreating)

\* a whole create flow has run: the tag was created, attached with the
\* returned id, shown after onRefresh, and isCreating is false again
C16_Witness ==
    /\ tLastCreate.made
    /\ tLastAttach.made
    /\ tLastAttach.origin = "create"
    /\ tLastAttach.id = 2
    /\ [id |-> 2, name |-> tLastCreate.name] \in tServerTags
    /\ 2 \in CurrentTagIds
    /\ tCreate = NoFlow
    /\ ~tIsCreating

\* C24: once the create-and-attach flow has completed successfully for a
\* name, allTags holds a tag of that name up to letter case (so canCreateNew
\* is false for it), also after a tag-list response of the popover's own
\* request has arrived later.
C24_CreatedTagStaysInAllTags ==
    (tLastCreate.made /\ tLastCreate.outcome = "completed") =>
        \E tag \in tAllTags : ToLowerCase(tag.name) = ToLowerCase(tLastCreate.name)

--------------------------------------------------------------------------
(* Stage options in the contact forms: CreateContactModal (the version     *)
(* with tenant stage options, and the version with the fixed status list)  *)
(* and the edit panel of CrmContactDetailPage.                             *)

Lead == <<"l", "e", "a", "d">>
Won == <<"w", "o", "n">>
New == <<"n", "e", "w">>

\* contact_stage_options a tenant may have configured; <<>> is none
TenantOptionLists == {<<>>, <<Lead, Won>>, <<Lead>>, <<New>>}

\* first names a user types
FirstNames == {<<>>, <<"A">>, <<" ", "A">>}

ContactFormKinds == {"create", "createFixed", "edit"}

\* stageOptions useMemo: `crmSettings?.contact_stage_options?.length
\*   ? crmSettings.contact_stage_options : DEFAULT_CRM_STAGE_OPTIONS`
StageOptionsOf(crm) ==
    IF crm.loaded /\ Len(crm.options) > 0 THEN crm.options
    ELSE DEFAULT_CRM_STAGE_OPTIONS

stageOptions == StageOptionsOf(gSettings)

\* the options of the status select of a form
SelectOptions(kind) ==
    IF kind = "createFixed" THEN DEFAULT_CRM_STAGE_OPTIONS ELSE stageOptions

\* initialValues.status of a form, given the page's stage options
InitialStatus(kind, options) ==
    CASE kind = "create" -> (IF Len(options) > 0 THEN options[1] ELSE Lead)
      [] kind = "createFixed" -> Lead
      [] kind = "edit" -> gContactStatus

FreshForm(kind, options) ==
    [kind |-> kind, status |-> InitialStatus(kind, options),
     initialStatus |-> InitialStatus(kind, options), first_name |-> <<>>,
     touched |-> FALSE]

\* Formik enableReinitialize: the form is reset when the new initialValues
\* are not deeply equal to the previous ones
Reinitialize(form, options) ==
    IF form.kind = "create" /\ InitialStatus("create", options) # form.initialStatus
    THEN FreshForm("create", options)
    ELSE form

\* the options the backend accepts for a tenant
TenantStages(tenant) == IF tenant = <<>> THEN DEFAULT_CRM_STAGE_OPTIONS ELSE tenant

InitStage ==
    /\ MoreIdle
    /\ ToolIdle
    /\ HookIdle
    /\ ServiceIdle
    /\ ListIdle
    /\ SettingsIdle
    /\ CrmIdle
    /\ FormIdle
    /\ TransportIdle
    /\ QueryIdle
    /\ DetailIdle
    /\ TagsIdle
    /\ PagingIdle
    /\ gTenant \in TenantOptionLists
    /\ gSettings = NoStageSettings
    /\ gContactStatus \in SeqToSet(TenantStages(gTenant))
    /\ gForm = NoForm
    /\ gSubmitted = NoSubmit
    /\ gCount = 0

\* an admin saves other stage options (handleSaveCrmSettings on the admin
\* page); stored contacts keep their status
TenantOptionsChange(options) ==
    /\ gCount < MaxStageSteps
    /\ options # gTenant
    /\ gTenant' = options
    /\ gCount' = gCount + 1
    /\ UNCHANGED <<gSettings, gContactStatus, gForm, gSubmitted>>
    /\ UNCHANGED notStageVars

\* a getCrmSettings request of useCrmSettings resolves (first load or a
\* revalidation); the open create form re-renders with the new options
CrmSettingsArrive ==
    /\ gSettings # [loaded |-> TRUE, options |-> gTenant]
    /\ gSettings' = [loaded |-> TRUE, options |-> gTenant]
    /\ gForm' = IF gForm = NoForm THEN gForm ELSE Reinitialize(gForm, StageOptionsOf(gSettings'))
    /\ UNCHANGED <<gTenant, gContactStatus, gSubmitted, gCount>>
    /\ UNCHANGED notStageVars

\* setCreateModalOpen(true) / setIsEditing(true)
OpenContactForm(kind) ==
    /\ gForm = NoForm
    /\ gForm' = FreshForm(kind, stageOptions)
    /\ UNCHANGED <<gTenant, gSettings, gContactStatus, gSubmitted, gCount>>
    /\ UNCHANGED notStageVars

\* Cancel / onClose
CloseContactForm ==
    /\ gForm # NoForm
    /\ gForm' = NoForm
    /\ UNCHANGED <<gTenant, gSettings, gContactStatus, gSubmitted, gCount>>
    /\ UNCHANGED notStageVars

\* typing into the first_name input
SetFirstName(text) ==
    /\ gForm # NoForm
    /\ text # gForm.first_name
    /\ gForm' = [gForm EXCEPT !.first_name = text]
    /\ UNCHANGED <<gTenant, gSettings, gContactStatus, gSubmitted, gCount>>
    /\ UNCHANGED notStageVars

\* choosing an item of the status select
SelectStatus(stage) ==
    /\ gForm # NoForm
    /\ stage \in SeqToSet(SelectOptions(gForm.kind))
    /\ stage # gForm.status
    /\ gForm' = [gForm EXCEPT !.status = stage, !.touched = TRUE]
    /\ UNCHANGED <<gTenant, gSettings, gContactStatus, gSubmitted, gCount>>
    /\ UNCHANGED notStageVars

\* onSubmit after a passed validation: createCrmContact / patchCrmContact
\* with `first_name: values.first_name.trim()` and `status: values.status`;
\* the form closes when the call resolves
SubmitContactForm(ok) ==
    /\ gForm # NoForm
    /\ Trim(gForm.first_name) # <<>>
    /\ gCount < MaxStageSteps
    /\ gSubmitted' = [made |-> TRUE, kind |-> gForm.kind, status |-> gForm.status,
                      first_name |-> Trim(gForm.first_name), input |-> gForm.first_name,
                      touched |-> gForm.touched, stageOptions |-> stageOptions,
                      tenant |-> gTenant, crm |-> gSettings]
    /\ gContactStatus' = IF ok /\ gForm.kind = "edit" THEN gForm.status ELSE gContactStatus
    /\ gForm' = IF ok THEN NoForm ELSE gForm
    /\ gCount' = gCount + 1
    /\ UNCHANGED <<gTenant, gSettings>>
    /\ UNCHANGED notStageVars

NextStage ==
    \/ \E options \in TenantOptionLists : TenantOptionsChange(options)
    \/ CrmSettingsArrive
    \/ \E kind \in ContactFormKinds : OpenContactForm(kind)
    \/ CloseContactForm
    \/ \E text \in FirstNames : SetFirstName(text)
    \/ \E stage \in {Lead, Won, New} \cup SeqToSet(DEFAULT_CRM_STAGE_OPTIONS) : SelectStatus(stage)
    \/ \E ok \in BOOLEAN : SubmitContactForm(ok)

SpecStage == InitStage /\ [][NextStage]_vars

\* C17: the status of every create / edit submission is one of the stage
\* options the page computes from the loaded settings at submit time.
C17_StatusAmongStageOptions ==
    gSubmitted.made => gSubmitted.status \in SeqToSet(gSubmitted.stageOptions)

\* C18: a contact created without touching the status select is submitted
\* with the first of the tenant's stage options, or lead when the tenant has
\* none, and with the trimmed first name.
C18_DefaultStatusIsFirstOption ==
    (gSubmitted.made /\ gSubmitted.kind \in {"create", "createFixed"} /\ ~gSubmitted.touched) =>
        /\ gSubmitted.status = (IF gSubmitted.tenant # <<>> THEN gSubmitted.tenant[1] ELSE Lead)
        /\ gSubmitted.first_name = Trim(gSubmitted.input)

--------------------------------------------------------------------------
(* Page number of CrmContactsPage: the status filter, the organization_id  *)
(* URL parameter, the pagination control and the responses of              *)
(* useCrmContacts.                                                         *)

StatusFilters == {"all", "lead"}
UrlOrganizations == {"", "o1"}      \* "" is an absent parameter
PagingPages == 0 .. MaxPagingPage
InitialTotals == {0, 30}

\* the filters of a useCrmContacts call: status ?? "", organizationId ?? ""
FilterOf(statusFilter, urlOrg) ==
    <<IF statusFilter = "all" THEN "" ELSE statusFilter, urlOrg>>
PagingFilters == {FilterOf(st, org) : st \in StatusFilters, org \in UrlOrganizations}

\* the useSWR key of useCrmContacts (q, category and sortBy are not set here)
PagingKey(statusFilter, urlOrg, page) == <<FilterOf(statusFilter, urlOrg), page, PAGE_SIZE>>
PagingKeys == {<<f, page, PAGE_SIZE>> : f \in PagingFilters, page \in PagingPages}
PagingCurKey == PagingKey(pStatusFilter, pUrlOrg, pPageNum)

NotLoaded == [loaded |-> FALSE, total_items |-> 0, items |-> 0]

\* the backend's page: total_items of the filter and
\* min(page_size, total_items - page_num * page_size) items
ResponseFor(key) ==
    LET total == pServer[key[1]]
        rest == total - key[2] * key[3]
    IN [loaded |-> TRUE, total_items |-> total,
        items |-> IF rest <= 0 THEN 0 ELSE IF rest < key[3] THEN rest ELSE key[3]]

\* what the hook returns: `data?.items ?? []` (its length), `data?.total_items ?? 0`
PagingContacts == pCache[PagingCurKey].items
PagingTotalItems == pCache[PagingCurKey].total_items
PagingIsLoading == ~pCache[PagingCurKey].loaded

\* variant: Math.floor in place of Math.ceil
TotalPagesFloor(totalItems) ==
    IF totalItems \div PAGE_SIZE < 1 THEN 1 ELSE totalItems \div PAGE_SIZE

\* Math.max(1, Math.ceil(totalItems / PAGE_SIZE))
TotalPages(totalItems) ==
    LET pages == (totalItems + PAGE_SIZE - 1) \div PAGE_SIZE
    IN IF pages < 1 THEN 1 ELSE pages

\* `!isLoading && contacts.length > 0 && totalPages > 1`
PaginationShown ==
    ~PagingIsLoading /\ PagingContacts > 0 /\ TotalPages(PagingTotalItems) > 1

\* variant: a filter handler that leaves the page number alone
PageAfterFilterChangeKept == pPageNum

\* setPageNum(0) of the filter handlers
PageAfterFilterChange == 0

InitPaging ==
    /\ MoreIdle
    /\ ToolIdle
    /\ HookIdle
    /\ ServiceIdle
    /\ ListIdle
    /\ SettingsIdle
    /\ CrmIdle
    /\ FormIdle
    /\ TransportIdle
    /\ QueryIdle
    /\ DetailIdle
    /\ TagsIdle
    /\ StageIdle
    /\ pStatusFilter = "all"
    /\ pUrlOrg \in UrlOrganizations
    /\ pPageNum = 0
    /\ pCache = [key \in PagingKeys |-> NotLoaded]
    /\ pServer \in {f \in [PagingFilters -> InitialTotals] :
                      \A a, b \in PagingFilters :
                          (\A i \in 1 .. 2 : a[i] = "" \/ a[i] = b[i]) => f[b] <= f[a]}
    /\ pSteps = 0

\* status select onValueChange: setStatusFilter(value); setPageNum(0)
SetStatusFilter(value) ==
    /\ value # pStatusFilter
    /\ pStatusFilter' = value
    /\ pPageNum' = PageAfterFilterChange
    /\ UNCHANGED <<pUrlOrg, pCache, pServer, pSteps>>
    /\ UNCHANGED notPagingVars

\* the URL's organization_id changes while the page stays mounted
\* (navigation between /contacts and /contacts?organization_id=...)
UrlOrganizationChanges(org) ==
    /\ org # pUrlOrg
    /\ pUrlOrg' = org
    /\ UNCHANGED <<pStatusFilter, pPageNum, pCache, pServer, pSteps>>
    /\ UNCHANGED notPagingVars

\* Pagination onPageChange: setPageNum(nextPage - 1)
OnPageChange(nextPage) ==
    /\ PaginationShown
    /\ nextPage \in 1 .. TotalPages(PagingTotalItems)
    /\ nextPage - 1 \in PagingPages
    /\ nextPage - 1 # pPageNum
    /\ pPageNum' = nextPage - 1
    /\ UNCHANGED <<pStatusFilter, pUrlOrg, pCache, pServer, pSteps>>
    /\ UNCHANGED notPagingVars

\* a listCrmContacts response for the current key is written to the cache
\* (first load of the key or a revalidation)
ContactsArrive ==
    /\ pCache[PagingCurKey] # ResponseFor(PagingCurKey)
    /\ pCache' = [pCache EXCEPT ![PagingCurKey] = ResponseFor(PagingCurKey)]
    /\ UNCHANGED <<pStatusFilter, pUrlOrg, pPageNum, pServer, pSteps>>
    /\ UNCHANGED notPagingVars

\* CreateContactModal onSuccess: setPageNum(0); refreshContacts().  The new
\* contact belongs to the URL's organization and has the given status.
ContactCreated(status) ==
    /\ pSteps < MaxPagingCreates
    /\ pSteps' = pSteps + 1
    /\ pServer' = [f \in PagingFilters |->
                     IF f[1] \in {"", status} /\ f[2] \in {"", pUrlOrg}
                     THEN pServer[f] + 1 ELSE pServer[f]]
    /\ pPageNum' = 0
    /\ UNCHANGED <<pStatusFilter, pUrlOrg, pCache>>
    /\ UNCHANGED notPagingVars

NextPaging ==
    \/ \E value \in StatusFilters : SetStatusFilter(value)
    \/ \E org \in UrlOrganizations : UrlOrganizationChanges(org)
    \/ \E nextPage \in 1 .. MaxPagingPage + 1 : OnPageChange(nextPage)
    \/ ContactsArrive
    \/ \E status \in {"lead", "active"} : ContactCreated(status)

SpecPaging == InitPaging /\ [][NextPaging]_vars

FiltersChange == <<pStatusFilter, pUrlOrg>>' # <<pStatusFilter, pUrlOrg>>

\* the page number lies past the last page of a result with this total
PastLastPage(page, totalItems) == page >= TotalPages(totalItems)

\* C20 as stated: when the filters change and the new filters' total puts
\* the current page past the last page, the page number is left as it is,
\* and the page renders an empty list.
C20_PageKeptOnFilterChange ==
    /\ [][(FiltersChange /\ PastLastPage(pPageNum, pServer[FilterOf(pStatusFilter', pUrlOrg')]))
             => pPageNum' = pPageNum]_vars
    /\ []((~PagingIsLoading /\ PastLastPage(pPageNum, PagingTotalItems)) => PagingContacts = 0)

\* C20, amended: the page number is never clamped against total_items: no
\* response changes it, a change of the URL's organization_id leaves it as
\* it is, and a page past the last page renders an empty list without a
\* pagination control; the filter handlers of the page reset it to 0.
C20_PageNeverClamped ==
    /\ [][/\ pCache' # pCache => pPageNum' = pPageNum
          /\ (pUrlOrg' # pUrlOrg) => pPageNum' = pPageNum
          /\ (pStatusFilter' # pStatusFilter) => pPageNum' = 0]_vars
    /\ []((~PagingIsLoading /\ PastLastPage(pPageNum, PagingTotalItems)) =>
              (PagingContacts = 0 /\ ~PaginationShown))

\* the page shows page 2 of a loaded result that has one page only: the
\* list is empty and the page number was not corrected
C20_Witness ==
    /\ pPageNum = 1
    /\ ~PagingIsLoading
    /\ PagingTotalItems <= PAGE_SIZE
    /\ PagingContacts = 0

\* n is max(1, ceil(totalItems / 25)): the least n >= 1 with 25 * n >= totalItems
IsCeilOrOne(n, totalItems) ==
    /\ n >= 1
    /\ 25 * n >= totalItems
    /\ n > 1 => 25 * (n - 1) < totalItems

\* C22: totalPages is max(1, ceil(total_items / 25)) for every total_items,
\* those the page has loaded included; a loaded total of 30 gives 2 pages,
\* with 25 contacts shown on page 0 and 5 on page 1.
C22_TotalPages ==
    /\ \A totalItems \in 0 .. MaxTotalItems : IsCeilOrOne(TotalPages(totalItems), totalItems)
    /\ ~PagingIsLoading =>
          /\ IsCeilOrOne(TotalPages(PagingTotalItems), PagingTotalItems)
          /\ PagingTotalItems = 30 =>
                /\ TotalPages(PagingTotalItems) = 2
                /\ pPageNum = 0 => PagingContacts = 25
                /\ pPageNum = 1 => PagingContacts = 5

\* page 1 of 30 contacts is shown, reached through the pagination control
C22_Witness ==
    /\ ~PagingIsLoading
    /\ PagingTotalItems = 30
    /\ pPageNum = 1
    /\ PagingContacts = 5
    /\ PaginationShown

--------------------------------------------------------------------------
(* The list and search functions of crmService.ts: each builds its request *)
(* path with withQueryParams.                                              *)

KeyPageSize == <<"p", "a", "g", "e", "_", "s", "i", "z", "e">>
KeyStatus == <<"s", "t", "a", "t", "u", "s">>
KeyOrganizationId == <<"o", "r", "g", "a", "n", "i", "z", "a", "t", "i", "o", "n", "_", "i", "d">>
KeyContactId == <<"c", "o", "n", "t", "a", "c", "t", "_", "i", "d">>
KeyEntityTypes == <<"e", "n", "t", "i", "t", "y", "_", "t", "y", "p", "e", "s">>

ListFunctions == {"searchCrmEntities", "listCrmContacts", "listCrmOrganizations",
                  "listCrmInteractions", "listCrmTags"}

\* the argument of a call that passes none (`args?`)
NoArgs == [given |-> FALSE]

\* arguments a caller passes; filter stands for status / contact_id
PageNumArgs == {UndefinedValue, Num(0), Num(1)}
PageSizeArgs == {UndefinedValue, Num(0), Num(25), Num(100)}
ServiceArgs ==
    {[given |-> TRUE, q |-> q, filter |-> f, page_num |-> pn, page_size |-> ps] :
        q \in {UndefinedValue, Str(<<>>), Str(<<"a">>)}, f \in {UndefinedValue, Str(<<"x">>)},
        pn \in PageNumArgs, ps \in PageSizeArgs}

\* searchCrmEntities declares `args` (with q) as required
ArgsOf(fn) ==
    IF fn = "searchCrmEntities"
    THEN {a \in ServiceArgs : a.q.t = "str"}
    ELSE ServiceArgs \cup {NoArgs}

\* `args?.field`
Field(args, field) ==
    IF args.given /\ field \in DOMAIN args THEN args[field] ELSE UndefinedValue

\* variant: `value || fallback`
FalsyOr(value, fallback) ==
    IF value \in {UndefinedValue, Null, Num(0), Str(<<>>), Bool(FALSE)} THEN fallback ELSE value

\* `value ?? fallback`
NullishOr(value, fallback) ==
    IF value = UndefinedValue \/ value = Null THEN fallback ELSE value

ApiUserCrm == <<"/", "a", "p", "i", "/", "u", "s", "e", "r", "/", "c", "r", "m", "/">>

ServiceBasePath(fn) ==
    ApiUserCrm \o
    (CASE fn = "searchCrmEntities" -> <<"s", "e", "a", "r", "c", "h">>
       [] fn = "listCrmContacts" -> <<"c", "o", "n", "t", "a", "c", "t", "s">>
       [] fn = "listCrmOrganizations" ->
              <<"o", "r", "g", "a", "n", "i", "z", "a", "t", "i", "o", "n", "s">>
       [] fn = "listCrmInteractions" ->
              <<"i", "n", "t", "e", "r", "a", "c", "t", "i", "o", "n", "s">>
       [] fn = "listCrmTags" -> <<"t", "a", "g", "s">>)

\* the page_num and page_size entries every function ends its mapping with
PagingParams(args) ==
    << <<KeyPageNum, NullishOr(Field(args, "page_num"), Num(0))>>,
       <<KeyPageSize, NullishOr(Field(args, "page_size"), Num(PAGE_SIZE))>> >>

\* the mapping each function hands to withQueryParams
ServiceParams(fn, args) ==
    (CASE fn = "searchCrmEntities" ->
              << <<KeyQ, Field(args, "q")>>, <<KeyEntityTypes, Field(args, "entity_types")>> >>
       [] fn = "listCrmContacts" ->
              << <<KeyQ, Field(args, "q")>>, <<KeyStatus, Field(args, "filter")>>,
                 <<KeyOrganizationId, Field(args, "organization_id")>>,
                 <<KeyTagIds, Field(args, "tag_ids")>> >>
       [] fn = "listCrmOrganizations" ->
              << <<KeyQ, Field(args, "q")>>, <<KeyTagIds, Field(args, "tag_ids")>> >>
       [] fn = "listCrmInteractions" ->
              << <<KeyContactId, Field(args, "filter")>>,
                 <<KeyOrganizationId, Field(args, "organization_id")>> >>
       [] fn = "listCrmTags" -> << <<KeyQ, Field(args, "q")>> >>)
    \o PagingParams(args)

ServicePath(fn, args) == withQueryParams(ServiceBasePath(fn), ServiceParams(fn, args))

InitService ==
    /\ MoreIdle
    /\ ToolIdle
    /\ HookIdle
    /\ ListIdle
    /\ SettingsIdle
    /\ CrmIdle
    /\ FormIdle
    /\ TransportIdle
    /\ QueryIdle
    /\ DetailIdle
    /\ TagsIdle
    /\ StageIdle
    /\ PagingIdle
    /\ sFn \in ListFunctions
    /\ sArgs \in ArgsOf(sFn)
    /\ sPath = <<>>

\* the call sFn(sArgs) up to `return getJson(path, ...)`
CallListFunction ==
    /\ sPath = <<>>
    /\ sPath' = ServicePath(sFn, sArgs)
    /\ UNCHANGED <<sFn, sArgs>>
    /\ UNCHANGED notServiceVars

NextService == CallListFunction

SpecService == InitService /\ [][NextService]_vars

\* the query string of a path, closed by "&"
QueryOf(path) ==
    LET at == CHOOSE i \in 1 .. Len(path) + 1 : i = Len(path) + 1 \/ path[i] = "?"
    IN <<"&">> \o SubSeq(path, at + 1, Len(path)) \o <<"&">>

\* number of places where part occurs in text
Occurrences(text, part) ==
    Cardinality({i \in 0 .. Len(text) - Len(part) : SubSeq(text, i + 1, i + Len(part)) = part})

\* the path has exactly one entry for key, and it is key=n
HasOnlyEntry(path, key, n) ==
    /\ Occurrences(QueryOf(path), <<"&">> \o key \o <<"=">>) = 1
    /\ Occurrences(QueryOf(path), <<"&">> \o key \o <<"=">> \o NumToString(n) \o <<"&">>) = 1

\* C21: the path of every list / search call carries page_num=0 when the
\* caller gave no page_num (or no argument at all) and the caller's page_num
\* otherwise, and page_size=25 when the caller gave no page_size and the
\* caller's page_size otherwise.
C21_PagingDefaults ==
    sPath # <<>> =>
        /\ HasOnlyEntry(sPath, KeyPageNum,
               IF sArgs.given /\ sArgs.page_num # UndefinedValue THEN sArgs.page_num.n ELSE 0)
        /\ HasOnlyEntry(sPath, KeyPageSize,
               IF sArgs.given /\ sArgs.page_size # UndefinedValue THEN sArgs.page_size.n ELSE 25)

\* listCrmTags() was called with no argument: /api/user/crm/tags?page_num=0&page_size=25
C21_Witness ==
    /\ sFn = "listCrmTags"
    /\ sArgs = NoArgs
    /\ sPath = ServiceBasePath("listCrmTags") \o <<"?">> \o KeyPageNum \o <<"=", "0", "&">>
                  \o KeyPageSize \o <<"=", "2", "5">>

--------------------------------------------------------------------------
(* The SWR list hooks: each builds a cache key from its parameters and     *)
(* fetches with the matching crmService list function.                     *)

ListHooks == {"useCrmContacts", "useCrmOrganizations", "useCrmInteractions"}

\* the parameters a page passes to a hook; filter stands for status
\* (contacts), type (organizations) and contactId (interactions)
OptionalTexts(text) == {UndefinedValue, Str(<<>>), Str(text)}
HookParams(hook) ==
    CASE hook = "useCrmContacts" ->
            {[q |-> q, filter |-> f, category |-> c, organizationId |-> o,
              sortBy |-> UndefinedValue, pageNum |-> Num(pn), pageSize |-> Num(PAGE_SIZE)] :
                q \in OptionalTexts(<<"a">>), f \in {UndefinedValue, Str(<<"x">>)},
                c \in {UndefinedValue, Str(<<"c">>)}, o \in OptionalTexts(<<"o">>),
                pn \in {0, 1}}
      [] hook = "useCrmOrganizations" ->
            {[q |-> q, filter |-> f, category |-> UndefinedValue,
              organizationId |-> UndefinedValue, sortBy |-> sb,
              pageNum |-> Num(pn), pageSize |-> Num(PAGE_SIZE)] :
                q \in OptionalTexts(<<"a">>), f \in OptionalTexts(<<"x">>),
                sb \in {UndefinedValue, Str(<<"s">>)}, pn \in {0, 1}}
      [] hook = "useCrmInteractions" ->
            {[q |-> UndefinedValue, filter |-> f, category |-> UndefinedValue,
              organizationId |-> o, sortBy |-> UndefinedValue,
              pageNum |-> Num(0), pageSize |-> Num(ps)] :
                f \in OptionalTexts(<<"x">>), o \in OptionalTexts(<<"o">>),
                ps \in {PAGE_SIZE, 2 * PAGE_SIZE}}

\* the first element of the key
HookName(hook) ==
    <<"c", "r", "m", "-">> \o
    (CASE hook = "useCrmContacts" -> <<"c", "o", "n", "t", "a", "c", "t", "s">>
       [] hook = "useCrmOrganizations" ->
              <<"o", "r", "g", "a", "n", "i", "z", "a", "t", "i", "o", "n", "s">>
       [] hook = "useCrmInteractions" ->
              <<"i", "n", "t", "e", "r", "a", "c", "t", "i", "o", "n", "s">>)

\* `value ?? ""`
OrEmpty(value) == NullishOr(value, Str(<<>>))

\* `value || undefined`
TruthyOrUndefined(value) ==
    IF value \in {UndefinedValue, Null, Str(<<>>)} THEN UndefinedValue ELSE value

\* variant: a key that leaves out the second filter and the page size
HookKeyShort(hook, p) ==
    <<Str(HookName(hook)), OrEmpty(p.q), OrEmpty(p.filter), p.pageNum>>

\* the array key handed to useSWR
HookKey(hook, p) ==
    CASE hook = "useCrmContacts" ->
            <<Str(HookName(hook)), OrEmpty(p.q), OrEmpty(p.filter), OrEmpty(p.category),
              OrEmpty(p.organizationId), OrEmpty(p.sortBy), p.pageNum, p.pageSize>>
      [] hook = "useCrmOrganizations" ->
            <<Str(HookName(hook)), OrEmpty(p.q), OrEmpty(p.filter), OrEmpty(p.sortBy),
              p.pageNum, p.pageSize>>
      [] hook = "useCrmInteractions" ->
            <<Str(HookName(hook)), OrEmpty(p.filter), OrEmpty(p.organizationId),
              p.pageNum, p.pageSize>>

\* the list function the fetcher calls
HookFunction(hook) ==
    CASE hook = "useCrmContacts" -> "listCrmContacts"
      [] hook = "useCrmOrganizations" -> "listCrmOrganizations"
      [] hook = "useCrmInteractions" -> "listCrmInteractions"

\* the object literal the fetcher passes to it
HookArgs(hook, p) ==
    CASE hook = "useCrmContacts" ->
            [given |-> TRUE, q |-> TruthyOrUndefined(p.q), filter |-> p.filter,
             category |-> p.category, organization_id |-> p.organizationId,
             sort_by |-> p.sortBy, page_num |-> p.pageNum, page_size |-> p.pageSize]
      [] hook = "useCrmOrganizations" ->
            [given |-> TRUE, q |-> TruthyOrUndefined(p.q), type |-> TruthyOrUndefined(p.filter),
             sort_by |-> p.sortBy, page_num |-> p.pageNum, page_size |-> p.pageSize]
      [] hook = "useCrmInteractions" ->
            [given |-> TRUE, filter |-> p.filter, organization_id |-> p.organizationId,
             page_num |-> p.pageNum, page_size |-> p.pageSize]

\* the path the fetcher requests
HookPath(hook, p) == ServicePath(HookFunction(hook), HookArgs(hook, p))

CachedKeys == {e.key : e \in hCache}
CachedPath(key) == (CHOOSE e \in hCache : e.key = key).path

InitHooks ==
    /\ MoreIdle
    /\ ToolIdle
    /\ ListIdle
    /\ SettingsIdle
    /\ CrmIdle
    /\ FormIdle
    /\ TransportIdle
    /\ QueryIdle
    /\ DetailIdle
    /\ TagsIdle
    /\ StageIdle
    /\ PagingIdle
    /\ ServiceIdle
    /\ hHook \in ListHooks
    /\ hParams = <<>>
    /\ hCache = {}
    /\ hShown = <<>>

\* a render with parameters whose key has no cache entry: the fetcher runs,
\* and its response is stored under the key and returned
RenderFetches(p) ==
    /\ HookKey(hHook, p) \notin CachedKeys
    /\ Cardinality(hCache) < MaxCached
    /\ hParams' = p
    /\ hCache' = hCache \cup {[key |-> HookKey(hHook, p), path |-> HookPath(hHook, p)]}
    /\ hShown' = HookPath(hHook, p)
    /\ UNCHANGED hHook
    /\ UNCHANGED notHookVars

\* a render with parameters whose key is cached: the cached entry is returned
RenderFromCache(p) ==
    /\ HookKey(hHook, p) \in CachedKeys
    /\ hParams # p
    /\ hParams' = p
    /\ hShown' = CachedPath(HookKey(hHook, p))
    /\ UNCHANGED <<hHook, hCache>>
    /\ UNCHANGED notHookVars

NextHooks ==
    \/ \E p \in HookParams(hHook) : RenderFetches(p)
    \/ \E p \in HookParams(hHook) : RenderFromCache(p)

SpecHooks == InitHooks /\ [][NextHooks]_vars

\* C28: what a list hook returns is always the response of the request path
\* of its current parameters: two parameter sets with the same cache key have
\* the same path, so an entry served from the cache was fetched for the same
\* query.
C28_SameKeySamePath ==
    /\ hParams # <<>> => hShown = HookPath(hHook, hParams)
    /\ \A e \in hCache : \A p \in HookParams(hHook) :
           HookKey(hHook, p) = e.key => HookPath(hHook, p) = e.path

\* an entry fetched with q undefined is returned from the cache for a render
\* with q = ""
C28_Witness ==
    /\ hParams # <<>>
    /\ hParams.q = Str(<<>>)
    /\ \E e \in hCache : e.key = HookKey(hHook, hParams) /\ e.path = hShown
    /\ \E p \in HookParams(hHook) :
           /\ p # hParams
           /\ p.q = UndefinedValue
           /\ HookKey(hHook, p) = HookKey(hHook, hParams)
    /\ hHook = "useCrmContacts"

--------------------------------------------------------------------------
(* CrmToolRenderer: renders the state of a CRM or calendar tool call from  *)
(* the packets received so far.                                            *)

StartTypes == {"CRM_SEARCH_TOOL_START", "CRM_CREATE_TOOL_START", "CRM_UPDATE_TOOL_START",
               "CRM_LOG_INTERACTION_TOOL_START", "CALENDAR_SEARCH_TOOL_START"}
DeltaTypes == {"CRM_SEARCH_TOOL_DELTA", "CRM_CREATE_TOOL_DELTA", "CRM_UPDATE_TOOL_DELTA",
               "CRM_LOG_INTERACTION_TOOL_DELTA", "CALENDAR_SEARCH_TOOL_DELTA"}
\* a packet type of another renderer
OtherType == "SECTION_END"
NullType == "null"

\* variant: every tool reads the CRM search deltas
getDeltaTypeOfSearch(startType) == "CRM_SEARCH_TOOL_DELTA"

getDeltaType(startType) ==
    CASE startType = "CRM_SEARCH_TOOL_START" -> "CRM_SEARCH_TOOL_DELTA"
      [] startType = "CRM_CREATE_TOOL_START" -> "CRM_CREATE_TOOL_DELTA"
      [] startType = "CRM_UPDATE_TOOL_START" -> "CRM_UPDATE_TOOL_DELTA"
      [] startType = "CRM_LOG_INTERACTION_TOOL_START" -> "CRM_LOG_INTERACTION_TOOL_DELTA"
      [] startType = "CALENDAR_SEARCH_TOOL_START" -> "CALENDAR_SEARCH_TOOL_DELTA"
      [] OTHER -> NullType

getCrmToolLabel(packetType) ==
    CASE packetType = "CRM_SEARCH_TOOL_START" -> "CRM Search"
      [] packetType = "CRM_CREATE_TOOL_START" -> "CRM Create"
      [] packetType = "CRM_UPDATE_TOOL_START" -> "CRM Update"
      [] packetType = "CRM_LOG_INTERACTION_TOOL_START" -> "CRM Log Interaction"
      [] packetType = "CALENDAR_SEARCH_TOOL_START" -> "Calendar Search"
      [] OTHER -> "CRM"

\* a payload object is the set of its keys, tagged with the tool that sent it
PayloadObject(keys) == [t |-> "obj", keys |-> keys]
\* the values a delta packet carries as payload; UndefinedValue: no payload key
PayloadsOf(type) == {PayloadObject({type}), PayloadObject({}), Null, Str(<<"a">>), UndefinedValue}

ToolPackets ==
    {[type |-> type, payload |-> UndefinedValue] : type \in StartTypes \cup {OtherType}}
    \cup UNION {{[type |-> type, payload |-> v] : v \in PayloadsOf(type)} : type \in DeltaTypes}

\* typeof value
TypeOf(value) ==
    CASE value.t \in {"obj", "arr", "null"} -> "object"
      [] value.t = "str" -> "string"
      [] value.t = "num" -> "number"
      [] value.t = "bool" -> "boolean"
      [] value.t = "undefined" -> "undefined"

\* the truthiness of a payload value
Truthy(value) ==
    ~(value \in {Null, UndefinedValue, Str(<<>>), Num(0), Bool(FALSE)})

BlinkingDot == [shows |-> "BlinkingDot"]
NoToolPayloadReturned == [shows |-> "No tool payload returned."]
EmptyDiv == [shows |-> "div"]

\* renderPayload(payload): one row per entry, or the text when there is none
renderPayload(payload) ==
    IF payload.keys = {} THEN NoToolPayloadReturned
    ELSE [shows |-> "entries", keys |-> payload.keys]

\* packets.find((packet) => packet.obj.type === deltaType)
FindPacket(packets, type) ==
    IF \E i \in 1 .. Len(packets) : packets[i].type = type
    THEN packets[CHOOSE i \in 1 .. Len(packets) :
                     /\ packets[i].type = type
                     /\ \A j \in 1 .. i - 1 : packets[j].type # type]
    ELSE [type |-> NullType, payload |-> UndefinedValue]

\* the element CrmToolRenderer passes to children
CrmToolRenderer(packets, stopPacketSeen, renderType) ==
    IF packets = <<>>
    THEN [status |-> NullType, label |-> NullType, content |-> EmptyDiv]
    ELSE LET startType == packets[1].type
             deltaType == getDeltaType(startType)
             label == getCrmToolLabel(startType)
             deltaPacket == IF deltaType # NullType THEN FindPacket(packets, deltaType)
                            ELSE [type |-> NullType, payload |-> UndefinedValue]
             payload == IF deltaPacket.type # NullType
                           /\ deltaPacket.payload # UndefinedValue
                           /\ TypeOf(deltaPacket.payload) = "object"
                        THEN deltaPacket.payload ELSE Null
             content == IF Truthy(payload) THEN renderPayload(payload)
                        ELSE IF ~stopPacketSeen THEN BlinkingDot
                        ELSE NoToolPayloadReturned
         IN [status |-> IF renderType = "HIGHLIGHT" THEN NullType ELSE label,
             label |-> label, content |-> content]

InitTool ==
    /\ MoreIdle
    /\ ListIdle
    /\ SettingsIdle
    /\ CrmIdle
    /\ FormIdle
    /\ TransportIdle
    /\ QueryIdle
    /\ DetailIdle
    /\ TagsIdle
    /\ StageIdle
    /\ PagingIdle
    /\ ServiceIdle
    /\ HookIdle
    /\ rPackets = <<>>
    /\ rStopPacketSeen = FALSE
    /\ rRenderType \in {"HIGHLIGHT", "FULL"}
    /\ rResult = CrmToolRenderer(<<>>, FALSE, rRenderType)

\* a packet of the tool call arrives and the renderer runs again
PacketArrives(packet) ==
    /\ Len(rPackets) < MaxPackets
    /\ rPackets' = Append(rPackets, packet)
    /\ rResult' = CrmToolRenderer(rPackets', rStopPacketSeen, rRenderType)
    /\ UNCHANGED <<rStopPacketSeen, rRenderType>>
    /\ UNCHANGED notToolVars

\* the stop packet is seen and the renderer runs again
StopPacketSeen ==
    /\ ~rStopPacketSeen
    /\ rStopPacketSeen' = TRUE
    /\ rResult' = CrmToolRenderer(rPackets, TRUE, rRenderType)
    /\ UNCHANGED <<rPackets, rRenderType>>
    /\ UNCHANGED notToolVars

NextTool ==
    \/ \E packet \in ToolPackets : PacketArrives(packet)
    \/ StopPacketSeen

SpecTool == InitTool /\ [][NextTool]_vars

\* a tool's start packet type with the type of its delta packets
ToolTypes ==
    {<<"CRM_SEARCH_TOOL_START", "CRM_SEARCH_TOOL_DELTA">>,
     <<"CRM_CREATE_TOOL_START", "CRM_CREATE_TOOL_DELTA">>,
     <<"CRM_UPDATE_TOOL_START", "CRM_UPDATE_TOOL_DELTA">>,
     <<"CRM_LOG_INTERACTION_TOOL_START", "CRM_LOG_INTERACTION_TOOL_DELTA">>,
     <<"CALENDAR_SEARCH_TOOL_START", "CALENDAR_SEARCH_TOOL_DELTA">>}

\* the positions of the delta packets that belong to the list's tool
OwnDeltas ==
    {i \in 1 .. Len(rPackets) : <<rPackets[1].type, rPackets[i].type>> \in ToolTypes}

\* C29: for a list that opens with a CRM or calendar tool start, the content
\* is the rendering of the payload of the first delta packet of that tool
\* when that packet carries an object, with or without the stop packet (its
\* entries; an object without entries renders as "No tool payload
\* returned."); otherwise it is the loading indicator while the stop packet is
\* unseen and "No tool payload returned." once it is seen; a payload of
\* another tool is never rendered.
C29_PayloadOfOwnFirstDelta ==
    (rPackets # <<>> /\ rPackets[1].type \in StartTypes) =>
        LET own == OwnDeltas
            first == CHOOSE i \in own : \A j \in own : i <= j
        IN /\ IF own # {} /\ rPackets[first].payload.t = "obj"
              THEN rResult.content =
                       IF rPackets[first].payload.keys # {}
                       THEN [shows |-> "entries", keys |-> rPackets[first].payload.keys]
                       ELSE NoToolPayloadReturned
              ELSE rResult.content =
                       IF rStopPacketSeen THEN NoToolPayloadReturned ELSE BlinkingDot
           /\ rResult.content.shows = "entries" =>
                  \E i \in own : rResult.content.keys = rPackets[i].payload.keys

\* a CRM create call whose list holds a search delta with an object payload
\* and then its own delta with an object payload, the stop packet unseen:
\* the create payload is shown
C29_Witness ==
    /\ Len(rPackets) = 3
    /\ rPackets[1].type = "CRM_CREATE_TOOL_START"
    /\ rPackets[2] = [type |-> "CRM_SEARCH_TOOL_DELTA", payload |-> PayloadObject({"CRM_SEARCH_TOOL_DELTA"})]
    /\ rPackets[3] = [type |-> "CRM_CREATE_TOOL_DELTA", payload |-> PayloadObject({"CRM_CREATE_TOOL_DELTA"})]
    /\ ~rStopPacketSeen
    /\ rResult.content = [shows |-> "entries", keys |-> {"CRM_CREATE_TOOL_DELTA"}]

--------------------------------------------------------------------------
(* The activity timeline of the contact and organization detail pages:     *)
(* useCrmInteractions({contactId | organizationId, pageNum: 0, pageSize:   *)
(* interactionPageSize}) and ActivityTimeline's "Load more".               *)

INTERACTION_PAGE_SIZE == 25
InteractionsPageNum == 0

DetailPages == {"CrmContactDetailPage", "CrmOrganizationDetailPage"}

\* the backend's answer to page 0 of size pageSize over a fixed total
InteractionsResponse(pageSize) ==
    [loaded |-> TRUE, total_items |-> totalOnServer,
     items |-> IF pageSize < totalOnServer THEN pageSize ELSE totalOnServer]

\* `data?.items ?? []` (its length) and `data?.total_items ?? 0`
InteractionsLength == IF interactionsData.loaded THEN interactionsData.items ELSE 0
TotalInteractions == IF interactionsData.loaded THEN interactionsData.total_items ELSE 0
InteractionsLoading == ~interactionsData.loaded

hasMoreInteractions == InteractionsLength < TotalInteractions

\* ActivityTimeline renders the button in the branch for a loaded,
\* non-empty list, under `hasMore &&`
LoadMoreOffered ==
    /\ ~InteractionsLoading
    /\ InteractionsLength # 0
    /\ hasMoreInteractions

\* variant: an updater that returns the initial size
FirstPageSize(value) == INTERACTION_PAGE_SIZE

\* the updater `(value) => value + INTERACTION_PAGE_SIZE`
NextPageSize(value) == value + INTERACTION_PAGE_SIZE

InitLoadMore ==
    /\ ListIdle
    /\ SettingsIdle
    /\ CrmIdle
    /\ FormIdle
    /\ TransportIdle
    /\ QueryIdle
    /\ DetailIdle
    /\ TagsIdle
    /\ StageIdle
    /\ PagingIdle
    /\ ServiceIdle
    /\ HookIdle
    /\ ToolIdle
    /\ detailPage \in DetailPages
    /\ totalOnServer \in 0 .. MaxInteractions
    /\ interactionPageSize = INTERACTION_PAGE_SIZE
    /\ interactionsData = NotLoaded

\* the fetch of the current key resolves
InteractionsArrive ==
    /\ InteractionsLoading
    /\ interactionsData' = InteractionsResponse(interactionPageSize)
    /\ UNCHANGED <<detailPage, totalOnServer, interactionPageSize>>
    /\ UNCHANGED notMoreVars

\* onLoadMore: the page size grows, which is a new SWR key without data
OnLoadMore ==
    /\ LoadMoreOffered
    /\ interactionPageSize' = NextPageSize(interactionPageSize)
    /\ interactionsData' = IF interactionPageSize' # interactionPageSize
                           THEN NotLoaded ELSE interactionsData
    /\ UNCHANGED <<detailPage, totalOnServer>>
    /\ UNCHANGED notMoreVars

NextLoadMore ==
    \/ InteractionsArrive
    \/ OnLoadMore

SpecLoadMore == InitLoadMore /\ [][NextLoadMore]_vars

\* the backend answers every fetch, and the user presses Load more as long
\* as it is offered
SpecLoadMoreFair ==
    /\ SpecLoadMore
    /\ WF_vars(InteractionsArrive)
    /\ WF_vars(OnLoadMore)

\* C30: every Load more click adds exactly 25 to the page size and fetches
\* page 0 of that size; after finitely many clicks hasMore is false and the
\* button is not offered, for good; and once a loaded list has no more, it
\* never has more again.
C30_LoadMoreEnds ==
    /\ [][OnLoadMore =>
            /\ interactionPageSize' = interactionPageSize + 25
            /\ interactionsData' = NotLoaded
            /\ InteractionsPageNum = 0
            /\ totalOnServer' = totalOnServer]_vars
    /\ <>[](~hasMoreInteractions /\ ~LoadMoreOffered /\ ~InteractionsLoading)
    /\ []((~InteractionsLoading /\ ~hasMoreInteractions) => [](~hasMoreInteractions))

\* 60 interactions: after two clicks the page size is 75, all 60 are loaded
\* and Load more is gone
C30_Witness ==
    /\ totalOnServer = 60
    /\ interactionPageSize = 75
    /\ InteractionsLength = 60
    /\ ~hasMoreInteractions
    /\ ~LoadMoreOffered

====
